---- MODULE Spec2Model ----
(***************************************************************************)
(* Model of the solana-multisender batch submitter: the send button's      *)
(* click handler (main.js), sendTransactions, processBatchRecursive and    *)
(* trySendBatch (js/transactions.js), the progress ledger (js/ui.js) and   *)
(* the wallet state (wallet.js), and of the consensus verifier:            *)
(* performConsensusVerification and verifyTransactionOnEndpoint            *)
(* (js/transactions.js) over the endpoint registry (js/rpc-config.js).     *)
(*                                                                         *)
(* A recipient is the object built at transactions.js:458; its identity is *)
(* the input line it was parsed from ("line"), its address may be shared   *)
(* with other lines.  completedRecipients is a Set of address strings,     *)
(* failedRecipients an array of recipient objects.                         *)
(***************************************************************************)
EXTENDS Integers, Sequences, FiniteSets, TLC

\* ---------------------------------------------------------------- bounds
MaxLines == 4
MaxBatch == 4
MintDecimals == 1
MaxEndpoints == 5
MaxThreshold == 4
MaxAmountLen == 4
MaxUrlLen == 3
MaxDecimals == 3

\* ------------------------------------------------------ program constants
BatchSizeLimit == 12
DefaultThreshold == 2
ThresholdLimit == 10

\* ------------------------------------------------------------ input sets
AddrOrder == <<"a1", "a2", "a3", "a4", "a5", "a6", "a7", "a8", "a9", "a10">>
Addrs == {AddrOrder[i] : i \in 1..Len(AddrOrder)}
AddrStrs == Addrs \cup {"notakey"}
MintStrs == {"", "notakey", "mintA"}
Digits == {"0", "1", "2", "3", "4", "5", "6", "7", "8", "9"}
AmtStrs == { <<"1">>, <<"0", ".", "0", "1">>, <<"0">>, <<"x">> }
Lines ==
  [parts : {2}, addr : AddrStrs, amt : {<<"1">>}]
    \cup [parts : {2}, addr : {"a1"}, amt : AmtStrs]
    \cup [parts : {1}, addr : {"a1"}, amt : {<<>>}]

\* ------------------------------------------------------------- helpers
Front(s) == SubSeq(s, 1, Len(s) - 1)
Last(s) == s[Len(s)]
Min(a, b) == IF a < b THEN a ELSE b

RECURSIVE SeqsUpTo(_, _)
SeqsUpTo(S, n) ==
  IF n = 0 THEN {<<>>}
  ELSE LET shorter == SeqsUpTo(S, n - 1)
       IN shorter \cup {Append(s, x) : s \in {t \in shorter : Len(t) = n - 1}, x \in S}

GoodLines == [parts : {2}, addr : Addrs, amt : {<<"1">>}]

AddrIndex(a) == CHOOSE i \in 1..Len(AddrOrder) : AddrOrder[i] = a

\* The code only compares addresses for equality, so one list stands for all
\* its renamings: the first line holds a1 and each line holds an address
\* already used or the next unused one.
Canonical(l) ==
  \A i \in 1..Len(l) :
    \/ AddrIndex(l[i].addr) = 1
    \/ \E j \in 1..(i - 1) : AddrIndex(l[j].addr) >= AddrIndex(l[i].addr) - 1

\* The recipient lists the form is filled with: every list of well-formed
\* lines and, as parsing stops at the first defective line whatever the other
\* lines hold, every list of lines "a1, 1" with one line replaced by a
\* defective one.
RecipientLists ==
  LET good == {l \in SeqsUpTo(GoodLines, MaxLines) : Canonical(l)}
      plain == SeqsUpTo({[parts |-> 2, addr |-> "a1", amt |-> <<"1">>]}, MaxLines)
  IN (good \ {<<>>})
       \cup UNION {{[l EXCEPT ![i] = x] : i \in 1..Len(l), x \in Lines \ GoodLines} : l \in plain}

\* What the form holds at the first click: a mint, a list and a batch size; a
\* form the click handler rejects is paired with the shortest lists only.
FormInputs ==
  {<<"mintA", l, n>> : l \in RecipientLists, n \in 1..MaxBatch}
    \cup {<<m, l, n>> : m \in MintStrs, l \in {t \in RecipientLists \cup {<<>>} : Len(t) <= 1},
                        n \in {0, 1, BatchSizeLimit + 1}}

\* ------------------------------------------------- ui.js decimalToAmount
DigitVal ==
  [c \in Digits |->
     CASE c = "0" -> 0 [] c = "1" -> 1 [] c = "2" -> 2 [] c = "3" -> 3
       [] c = "4" -> 4 [] c = "5" -> 5 [] c = "6" -> 6 [] c = "7" -> 7
       [] c = "8" -> 8 [] c = "9" -> 9]

IsAllDigits(s) == Len(s) > 0 /\ \A i \in 1..Len(s) : s[i] \in Digits

\* the regular expression /^\d+(?:\.\d+)?$/
IsDecimalString(s) ==
  \/ IsAllDigits(s)
  \/ \E k \in 2..(Len(s) - 1) :
       /\ s[k] = "."
       /\ IsAllDigits(SubSeq(s, 1, k - 1))
       /\ IsAllDigits(SubSeq(s, k + 1, Len(s)))

DotIndex(s) ==
  IF \E k \in 1..Len(s) : s[k] = "."
    THEN CHOOSE k \in 1..Len(s) : s[k] = "." /\ \A j \in 1..(k - 1) : s[j] # "."
    ELSE Len(s) + 1

Zeros(n) == [i \in 1..n |-> "0"]

RECURSIVE DigitsToNat(_)
DigitsToNat(s) ==
  IF s = <<>> THEN 0 ELSE 10 * DigitsToNat(Front(s)) + DigitVal[Last(s)]

\* variant: the amount is rounded to the nearest smallest unit
decimalToAmountRounded(s, d) ==
  LET k == DotIndex(s)
      digits == SubSeq(s, 1, k - 1) \o SubSeq(s, k + 1, Len(s))
      scale == 10 ^ (IF k > Len(s) THEN 0 ELSE Len(s) - k)
  IN (2 * DigitsToNat(digits) * 10 ^ d + scale) \div (2 * scale)

\* only applied to strings that pass IsDecimalString
decimalToAmount(s, d) ==
  LET k == DotIndex(s)
      whole == SubSeq(s, 1, k - 1)
      fracRaw == SubSeq(s, k + 1, Len(s))
      frac == SubSeq(fracRaw \o Zeros(d), 1, d)
  IN DigitsToNat(whole \o frac)

\* ---------------------------------------------------- ui.js formatAmount
\* bi.toString() of a non-negative BigInt
RECURSIVE NatToDigits(_)
NatToDigits(n) ==
  LET c == CHOOSE x \in Digits : DigitVal[x] = n % 10
  IN IF n < 10 THEN <<c>> ELSE Append(NatToDigits(n \div 10), c)

\* s.padStart(n, '0')
PadStart(s, n) == IF Len(s) >= n THEN s ELSE Zeros(n - Len(s)) \o s

\* frac.replace(/0+$/, '')
RECURSIVE StripTrailingZeros(_)
StripTrailingZeros(s) ==
  IF s # <<>> /\ Last(s) = "0" THEN StripTrailingZeros(Front(s)) ELSE s

\* variant: the digits are cut without padding them to decimals + 1 first
formatAmountUnpadded(bi, d) ==
  LET s == NatToDigits(bi)
      cut == IF Len(s) > d THEN Len(s) - d ELSE 0
      whole == SubSeq(s, 1, cut)
      frac == StripTrailingZeros(SubSeq(s, cut + 1, Len(s)))
  IN IF d = 0 THEN s
     ELSE IF frac # <<>> THEN whole \o <<".">> \o frac ELSE whole

formatAmount(bi, d) ==
  LET s == NatToDigits(bi)
      pad == PadStart(s, d + 1)
      whole == SubSeq(pad, 1, Len(pad) - d)
      frac == StripTrailingZeros(SubSeq(pad, Len(pad) - d + 1, Len(pad)))
  IN IF d = 0 THEN s
     ELSE IF frac # <<>> THEN whole \o <<".">> \o frac ELSE whole

\* the amount strings a recipient line may carry, and the decimals of a mint
AmountChars == {"0", "1", "5", "."}
AmountStrings == UNION {[1..n -> AmountChars] : n \in 1..MaxAmountLen}
DecimalsInputs == 0..MaxDecimals

\* ------------------------------------- transactions.js: recipient parsing
IsPublicKey(s) == s \in Addrs \cup {"mintA"}

\* the error thrown for one line, or "none"
LineError(l, d) ==
  IF l.parts # 2 THEN "invalid_line"
  ELSE IF ~IsPublicKey(l.addr) THEN "bad_address"
  ELSE IF ~IsDecimalString(l.amt) THEN "invalid_amount"
  ELSE IF decimalToAmount(l.amt, d) <= 0 THEN "amount_not_positive"
  ELSE "none"

ParseError(list, d) ==
  IF \E i \in 1..Len(list) : LineError(list[i], d) # "none"
    THEN LET i == CHOOSE i \in 1..Len(list) :
                    /\ LineError(list[i], d) # "none"
                    /\ \A j \in 1..(i - 1) : LineError(list[j], d) = "none"
         IN LineError(list[i], d)
    ELSE "none"

\* the number of lines the parse loop gets through before it throws
ParsedLines(list, d) ==
  Cardinality({i \in 1..Len(list) : \A j \in 1..i : LineError(list[j], d) = "none"})

\* the local array "recipients" when the parse loop ends or throws
ParseRecipientList(list, d) ==
  [i \in 1..ParsedLines(list, d) |->
     [line |-> i, address |-> list[i].addr, amount |-> decimalToAmount(list[i].amt, d)]]

\* variant: each recipient is published as soon as it is parsed
PublishedEagerly(recipients, err) == recipients

\* progressState.allRecipients = recipients.slice() (line 461) is reached only
\* when the parse loop has not thrown; allRecipients is what resetProgress left
PublishedRecipients(recipients, err) == IF err = "none" THEN recipients ELSE <<>>

\* variant: only full batches are made, a shorter rest is left out
CreateFullBatches(recipients, size) ==
  [b \in 1..(Len(recipients) \div size) |->
     SubSeq(recipients, (b - 1) * size + 1, b * size)]

\* for (i = 0; i < recipients.length; i += batchSize) batches.push(slice(i, i + batchSize))
CreateBatches(recipients, size) ==
  LET n == Len(recipients)
      count == (n + size - 1) \div size
  IN [b \in 1..count |->
        SubSeq(recipients, (b - 1) * size + 1, Min(b * size, n))]

\* batches[i].filter(r => !completedRecipients.has(r.address.toString()))
FilterCompleted(batch, completed) ==
  SelectSeq(batch, LAMBDA r : r.address \notin completed)

\* for (const r of batch) completedRecipients.add(r.address.toString())
MarkCompleted(completed, batch) ==
  completed \cup {batch[k].address : k \in 1..Len(batch)}

\* ------------------------------------------------ transactions.js: split
\* variant: the split takes off the first recipient only
SplitMidFirst(n) == 1

\* variant: the split point rounded up
SplitMidCeil(n) == (n + 1) \div 2

\* const mid = Math.floor(batch.length / 2)
SplitMid(n) == n \div 2
LeftHalf(batch) == SubSeq(batch, 1, SplitMid(Len(batch)))
RightHalf(batch) == SubSeq(batch, SplitMid(Len(batch)) + 1, Len(batch))

\* ------------------------------------------- transactions.js trySendBatch
\* What the chain client, the signer and the verifier would answer to the
\* steps of one attempt; the answer of a step that is not reached is unused.
AllOk ==
  [build |-> "ok", sim |-> "ok", sign |-> "ok", send |-> "ok", confirm |-> "ok",
   verify |-> "reached"]

\* one answer per step that can fail: every other step would succeed
ChainResponses ==
  { AllOk,
    [AllOk EXCEPT !.verify = "not_reached"],
    [AllOk EXCEPT !.verify = "throw"],
    [AllOk EXCEPT !.build = "throw"],
    [AllOk EXCEPT !.sim = "err"],
    [AllOk EXCEPT !.sim = "throw"],
    [AllOk EXCEPT !.sign = "throw"],
    [AllOk EXCEPT !.send = "throw"],
    [AllOk EXCEPT !.confirm = "err"],
    [AllOk EXCEPT !.confirm = "throw"] }

\* variant: the confirmation awaited outside the try block
GuardedStepsNoConfirm == {"build", "sign", "send", "verify"}

\* the steps that run inside the try block (lines 301-342), whose exceptions
\* the catch block (lines 342-351) turns into "return false"
GuardedSteps == {"build", "sign", "send", "confirm", "verify"}

\* variant: a batch counts as sent only when the quorum was reached
AttemptResultNeedsQuorum(confirmed, verdict) == confirmed /\ verdict = "reached"

\* lines 323-341: after a successful confirmation the verification runs and the
\* attempt returns true whatever verdict it returns
AttemptResult(confirmed, verdict) == confirmed /\ verdict # "throw"

\* const provider = getProvider() (line 299): after a disconnect the provider
\* is null and provider.signTransaction throws
WithSigner(r, connected) == IF connected THEN r ELSE [r EXCEPT !.sign = "throw"]

\* variant: the result of the simulation is logged and the attempt goes on
trySendBatchIgnoringSimulation(batch, simulateBefore, r) ==
  LET built == r.build = "ok"
      simulated == built /\ simulateBefore
      signAsked == built
      signed == signAsked /\ r.sign = "ok"
      sent == signed /\ r.send = "ok"
      confirmed == sent /\ r.confirm = "ok"
      verified == confirmed /\ r.verify # "throw"
      thrownAt == IF ~built THEN "build"
                  ELSE IF signAsked /\ ~signed THEN "sign"
                  ELSE IF signed /\ ~sent THEN "send"
                  ELSE IF sent /\ r.confirm = "throw" THEN "confirm"
                  ELSE IF confirmed /\ ~verified THEN "verify"
                  ELSE "none"
  IN [ok |-> AttemptResult(confirmed, r.verify),
      escaped |-> thrownAt \notin GuardedSteps \cup {"none"},
      simulated |-> simulated,
      signAsked |-> signAsked,
      signed |-> signed,
      sent |-> sent,
      confirmed |-> confirmed,
      consensus |-> IF verified THEN r.verify ELSE "none"]

\* The attempt as the code runs it: which steps were reached, what it returns
\* (ok) and whether an exception leaves it (escaped).  simulateTx catches the
\* exception of the simulate call itself and reports it as an error.
trySendBatch(batch, simulateBefore, r) ==
  LET built == r.build = "ok"
      simulated == built /\ simulateBefore
      simOk == ~simulated \/ r.sim = "ok"
      signAsked == built /\ simOk
      signed == signAsked /\ r.sign = "ok"
      sent == signed /\ r.send = "ok"
      confirmed == sent /\ r.confirm = "ok"
      verified == confirmed /\ r.verify # "throw"
      ok == AttemptResult(confirmed, r.verify)
      thrownAt == IF ~built THEN "build"
                  ELSE IF signAsked /\ ~signed THEN "sign"
                  ELSE IF signed /\ ~sent THEN "send"
                  ELSE IF sent /\ r.confirm = "throw" THEN "confirm"
                  ELSE IF confirmed /\ ~verified THEN "verify"
                  ELSE "none"
  IN [ok |-> ok,
      escaped |-> thrownAt \notin GuardedSteps \cup {"none"},
      simulated |-> simulated,
      signAsked |-> signAsked,
      signed |-> signed,
      sent |-> sent,
      confirmed |-> confirmed,
      consensus |-> IF verified THEN r.verify ELSE "none"]

\* ----------------------------------- transactions.js processBatchRecursive
\* variant: the first attempt's success does not return
RetryAlways(ok) == TRUE

\* if (ok) { ...; return; }  -- the retry is reached only when the attempt failed
RetryNeeded(ok) == ~ok

\* variant: a pair is given up without being split
FailsPermanentlyPair(batch) == Len(batch) <= 2

\* if (batch.length === 1) { failedRecipients.push(r); return; }
FailsPermanently(batch) == Len(batch) = 1

NewFrame(batch, depth) == [batch |-> batch, depth |-> depth, stage |-> "first"]

\* variant: the caller returns once its left half has returned
RECURSIVE ResumeWithoutRight(_)
ResumeWithoutRight(s) == <<>>

\* The call stack after the frame on top has returned: a caller awaiting its
\* left half goes on with its right half, one awaiting its right half returns.
RECURSIVE Resume(_)
Resume(s) ==
  IF s = <<>> THEN <<>>
  ELSE LET f == Last(s)
       IN IF f.stage = "left"
            THEN Append(Append(Front(s), [f EXCEPT !.stage = "right"]),
                        NewFrame(RightHalf(f.batch), f.depth + 1))
            ELSE Resume(Front(s))

ReturnFrom(s) == Resume(Front(s))

\* The batch loop of sendTransactions from index i on: the first batch whose
\* filtered list is not empty, or Len(bs) + 1 when the loop ends.
RECURSIVE NextBatchIndex(_, _, _)
NextBatchIndex(bs, i, completed) ==
  IF i > Len(bs) THEN i
  ELSE IF Len(FilterCompleted(bs[i], completed)) = 0
         THEN NextBatchIndex(bs, i + 1, completed)
         ELSE i

\* --------------------------------- rpc-config.js: the endpoint registry
\* An endpoint of userRpcEndpoints[cluster].  url is "http" for a URL the chain
\* SDK accepts, "invalid" for a string it rejects, "missing" when the entry has
\* no url; apiKey is "" or a key; isDefault is TRUE for the entries of
\* config.json / DEFAULT_RPC_ENDPOINTS, FALSE for those added by the user.
WellFormedEndpoint(i) ==
  [id |-> i, enabled |-> TRUE, url |-> "http", apiKey |-> "", isDefault |-> TRUE]

MalformedEndpoints(i) ==
  {[id |-> i, enabled |-> TRUE, url |-> "invalid", apiKey |-> "", isDefault |-> TRUE],
   [id |-> i, enabled |-> TRUE, url |-> "missing", apiKey |-> "", isDefault |-> TRUE],
   [id |-> i, enabled |-> TRUE, url |-> "missing", apiKey |-> "key", isDefault |-> TRUE]}

\* The endpoint lists that config.json or localStorage supply: up to
\* MaxEndpoints well-formed entries, or up to three entries one of which is
\* malformed (the loaders validate nothing).
RegistryInputs ==
  LET wellFormed(n) == [i \in 1..n |-> WellFormedEndpoint(i)]
  IN {wellFormed(n) : n \in 0..MaxEndpoints}
       \cup UNION {UNION {{[wellFormed(n) EXCEPT ![i] = e] : e \in MalformedEndpoints(i)}
                              : i \in 1..n}
                     : n \in 1..3}

\* config.js DEFAULT_RPC_ENDPOINTS.devnet
DefaultRegistry == [i \in 1..3 |-> WellFormedEndpoint(i)]

\* endpoints.filter(ep => ep.enabled)
getEnabledEndpoints(endpoints) == SelectSeq(endpoints, LAMBDA ep : ep.enabled)

\* The string buildEndpointUrl returns, by what the chain SDK makes of it; with
\* an api key and no url, endpoint.url.includes throws a TypeError.
buildEndpointUrl(endpoint) ==
  IF endpoint.apiKey = "" THEN endpoint.url
  ELSE IF endpoint.url = "missing" THEN "TypeError"
  ELSE endpoint.url

\* buildEndpointUrl on the text of the url and of the key, as sequences of
\* characters; NoKey stands for an apiKey that is undefined or null, <<>> for
\* the empty string.
NoKey == <<"undefined">>
UrlChars == {"h", "/", "?", "=", "&"}
UrlStrings == UNION {[1..n -> UrlChars] : n \in 1..MaxUrlLen}
ApiKeys == {NoKey, <<>>, <<"k">>, <<"k", "2">>}
ApiKeyParam == <<"a", "p", "i", "-", "k", "e", "y", "=">>

\* endpoint.url.includes('?')
Includes(str, c) == \E i \in 1..Len(str) : str[i] = c

\* variant: the key always introduced by '?'
buildEndpointUrlQuestionMark(endpoint) ==
  IF endpoint.apiKey \in {NoKey, <<>>} THEN endpoint.url
  ELSE endpoint.url \o <<"?">> \o ApiKeyParam \o endpoint.apiKey

buildEndpointUrlString(endpoint) ==
  IF endpoint.apiKey \in {NoKey, <<>>} THEN endpoint.url
  ELSE IF Includes(endpoint.url, "?")
    THEN endpoint.url \o <<"&">> \o ApiKeyParam \o endpoint.apiKey
  ELSE endpoint.url \o <<"?">> \o ApiKeyParam \o endpoint.apiKey

\* parseInt(s, 10) of a string without leading blanks: an optional sign and
\* the longest run of digits after it, NaN when that run is empty
ParseInt(s) ==
  LET signed == Len(s) > 0 /\ s[1] \in {"-", "+"}
      body == IF signed THEN Tail(s) ELSE s
      n == CHOOSE k \in 0..Len(body) :
             /\ \A i \in 1..k : body[i] \in Digits
             /\ k < Len(body) => body[k + 1] \notin Digits
      magnitude == DigitsToNat(SubSeq(body, 1, n))
  IN [nan |-> n = 0,
      val |-> IF n = 0 THEN 0 ELSE IF signed /\ s[1] = "-" THEN 0 - magnitude ELSE magnitude]

\* what localStorage may hold under the key minConsensusThreshold; <<>> stands
\* for no item and for the empty string
StoredThresholds ==
  { <<>>, <<"2">>, <<"7">>, <<"0">>, <<"1", "1">>, <<"-", "3">>, <<"x">>, <<"3", "x">> }

FallbackThreshold == 2

\* initRpcConfig lines 54-58
LoadThreshold(stored) ==
  IF stored = <<>> THEN DefaultThreshold
  ELSE LET p == ParseInt(stored)
       IN IF p.nan \/ p.val = 0 THEN FallbackThreshold ELSE p.val

\* endpoints[idx].enabled = !endpoints[idx].enabled
toggleEndpointEnabled(endpoints, idx) ==
  [endpoints EXCEPT ![idx].enabled = ~endpoints[idx].enabled]

\* [endpoints[idx - 1], endpoints[idx]] = [endpoints[idx], endpoints[idx - 1]]
\* (indices count from 1 here, from 0 in the code)
moveEndpointUp(endpoints, idx) ==
  IF idx > 1 /\ idx <= Len(endpoints)
    THEN [endpoints EXCEPT ![idx - 1] = endpoints[idx], ![idx] = endpoints[idx - 1]]
    ELSE endpoints

moveEndpointDown(endpoints, idx) ==
  IF idx >= 1 /\ idx < Len(endpoints)
    THEN [endpoints EXCEPT ![idx] = endpoints[idx + 1], ![idx + 1] = endpoints[idx]]
    ELSE endpoints

\* endpoints.splice(idx, 1)
Splice(endpoints, idx) ==
  SubSeq(endpoints, 1, idx - 1) \o SubSeq(endpoints, idx + 1, Len(endpoints))

\* variant: default endpoints are removed like the others
removeAnyEndpoint(endpoints, idx, confirmed) ==
  IF idx \in 1..Len(endpoints) /\ confirmed THEN Splice(endpoints, idx) ELSE endpoints

\* removeEndpoint lines 382-388: the list after the call; confirmed is the
\* answer to the confirm() dialog
removeEndpoint(endpoints, idx, confirmed) ==
  IF idx \in 1..Len(endpoints) /\ ~endpoints[idx].isDefault /\ confirmed
    THEN Splice(endpoints, idx)
    ELSE endpoints

\* removeEndpoint lines 390-393: the primary id after an entry was removed
PrimaryAfterRemoval(primary, removedId) == IF primary = removedId THEN 0 ELSE primary

\* the id `custom-${Date.now()}` of an endpoint added at clock reading now;
\* the ids 1..MaxEndpoints are those of config.json
CustomId(now) == MaxEndpoints + now
ClockReadings == {1, 2}

\* addCustomEndpoint lines 421-431
addCustomEndpoint(endpoints, now, apiKey) ==
  Append(endpoints, [id |-> CustomId(now), enabled |-> TRUE, url |-> "http",
                     apiKey |-> apiKey, isDefault |-> FALSE])

\* saveEndpoint lines 284-316: an edit that passes the label/url check and
\* stores the url and the key typed into the form
saveEndpoint(endpoints, idx, url, apiKey) ==
  IF idx \in 1..Len(endpoints)
    THEN [endpoints EXCEPT ![idx].url = url, ![idx].apiKey = apiKey]
    ELSE endpoints

\* ----------------------------------- transactions.js initializeConnection
\* The value of the module-level connection: the id of the endpoint it was
\* built for, NoConnection while it is null, DropdownConnection when it was
\* built from the cluster dropdown.
NoConnection == 0
DropdownConnection == -1

\* variant: the primary endpoint is used only while it is enabled
SelectedEnabledEndpoint(endpoints, primary) ==
  LET withId == {i \in 1..Len(endpoints) : endpoints[i].id = primary /\ endpoints[i].enabled}
      enabled == {i \in 1..Len(endpoints) : endpoints[i].enabled}
      first(S) == CHOOSE i \in S : \A j \in S : i <= j
  IN IF primary # 0 /\ withId # {} THEN first(withId)
     ELSE IF enabled # {} THEN first(enabled)
     ELSE IF Len(endpoints) > 0 THEN 1
     ELSE 0

\* lines 40-54: the primary endpoint, else the first enabled one, else the
\* first one; 0 when the list is empty
SelectedEndpoint(endpoints, primary) ==
  LET withId == {i \in 1..Len(endpoints) : endpoints[i].id = primary}
      enabled == {i \in 1..Len(endpoints) : endpoints[i].enabled}
      first(S) == CHOOSE i \in S : \A j \in S : i <= j
  IN IF primary # 0 /\ withId # {} THEN first(withId)
     ELSE IF enabled # {} THEN first(enabled)
     ELSE IF Len(endpoints) > 0 THEN 1
     ELSE 0

\* lines 56-65: buildEndpointUrl or new Connection may throw, and then the
\* assignment is not reached and the old connection stays
initializeConnection(endpoints, primary, old) ==
  LET i == SelectedEndpoint(endpoints, primary)
  IN IF i = 0 THEN DropdownConnection
     ELSE IF buildEndpointUrl(endpoints[i]) = "http" THEN endpoints[i].id
     ELSE old

\* ------------------------- transactions.js: verifyTransactionOnEndpoint
\* What conn.getSignatureStatus does for one endpoint: it throws an Error or
\* another value, or returns null, a reply without value, or a value with a
\* confirmation tier ("undefined" when the field is absent, "recent" for a
\* tier the code does not know) and an execution error or none.
Tiers == {"finalized", "confirmed", "processed", "recent", "undefined"}
ExecErrors == {"none", "InstructionError"}

Replies ==
  {[call |-> c, status |-> "null", tier |-> "undefined", err |-> "none"]
     : c \in {"throws_error", "throws_value"}}
    \cup {[call |-> "returns", status |-> st, tier |-> "undefined", err |-> "none"]
            : st \in {"null", "no_value"}}
    \cup {[call |-> "returns", status |-> "value", tier |-> t, err |-> e]
            : t \in Tiers, e \in ExecErrors}

Finalized == [call |-> "returns", status |-> "value", tier |-> "finalized", err |-> "none"]
Confirmed == [call |-> "returns", status |-> "value", tier |-> "confirmed", err |-> "none"]
NotFound == [call |-> "returns", status |-> "null", tier |-> "undefined", err |-> "none"]
TimedOut == [call |-> "throws_error", status |-> "null", tier |-> "undefined", err |-> "none"]

\* The replies of n endpoints: every reply for up to two endpoints, the four
\* common ones for more.
ReplyLists(n) ==
  IF n <= 2 THEN [1..n -> Replies]
  ELSE [1..n -> {Finalized, Confirmed, NotFound, TimedOut}]

\* err?.message || String(err)
ErrorText(call) == IF call = "throws_error" THEN "timeout" ELSE "boom"

\* JSON.stringify(hasError)
Stringify(e) == <<"json", e>>

Result(success, status, error) ==
  [rejected |-> FALSE, success |-> success, status |-> status, error |-> error]

\* variant: the confirmation tier is looked at before the execution error
MapStatusTierFirst(reply) ==
  IF reply.tier = "finalized" THEN Result(TRUE, "finalized", "none")
  ELSE IF reply.tier = "confirmed" THEN Result(TRUE, "confirmed", "none")
  ELSE IF reply.err # "none" THEN Result(FALSE, "error", Stringify(reply.err))
  ELSE IF reply.tier = "processed"
    THEN Result(FALSE, "processed", "Only processed, not yet confirmed")
  ELSE Result(FALSE, IF reply.tier = "undefined" THEN "unknown" ELSE reply.tier,
              "Unexpected confirmation status")

\* lines 100-133: a reply with a value
MapStatus(reply) ==
  IF reply.err # "none" THEN Result(FALSE, "error", Stringify(reply.err))
  ELSE IF reply.tier = "finalized" THEN Result(TRUE, "finalized", "none")
  ELSE IF reply.tier = "confirmed" THEN Result(TRUE, "confirmed", "none")
  ELSE IF reply.tier = "processed"
    THEN Result(FALSE, "processed", "Only processed, not yet confirmed")
  ELSE Result(FALSE, IF reply.tier = "undefined" THEN "unknown" ELSE reply.tier,
              "Unexpected confirmation status")

\* The promise of verifyTransactionOnEndpoint: rejected when buildEndpointUrl
\* (line 82, before the try) throws, else fulfilled with a result; new
\* Connection throws inside the try on a URL that is no http(s) URL.
verifyTransactionOnEndpoint(endpoint, reply) ==
  LET fullUrl == buildEndpointUrl(endpoint)
  IN IF fullUrl = "TypeError"
       THEN [rejected |-> TRUE, success |-> FALSE, status |-> "none", error |-> "TypeError"]
     ELSE IF fullUrl # "http"
       THEN Result(FALSE, "error", "Endpoint URL must start with http")
     ELSE IF reply.call # "returns" THEN Result(FALSE, "error", ErrorText(reply.call))
     ELSE IF reply.status # "value"
       THEN Result(FALSE, "not_found", "Transaction not recognized by this endpoint")
     ELSE MapStatus(reply)

\* conn.getSignatureStatus is called for this endpoint
IsQueried(endpoint) == buildEndpointUrl(endpoint) = "http"

\* ------------------------- transactions.js: performConsensusVerification
\* variant: the verification runs with no endpoint as with some
NeverSkipped(endpoints) == FALSE

\* if (endpoints.length === 0)
NoEndpointsEnabled(endpoints) == Len(endpoints) = 0

\* variant: every successful result counts
CountsEverySuccess(r) == r.success

\* results.filter(r => r.success && r.status === 'finalized')
CountsTowardQuorum(r) == r.success /\ r.status = "finalized"

\* variant: the threshold itself is not enough
QuorumExceeded(confirmedCount, threshold) == confirmedCount > threshold

\* const consensusReached = confirmedCount >= minConsensusThreshold
QuorumReached(confirmedCount, threshold) == confirmedCount >= threshold

\* variant: a missed quorum takes the completed recipients back
LedgerRevokedOnMiss(l, out) ==
  IF out.kind = "returned" /\ ~out.consensusReached THEN <<l[1], {}, l[3]>> ELSE l

\* lines 147-207 hold no call of markCompleted, markFailed, setAllRecipients or
\* resetProgress: the progress ledger after the verification is the one before
LedgerAfterVerification(l, out) == l

NoOutcome == [kind |-> "none"]
Thrown == [kind |-> "thrown"]

\* What performConsensusVerification returns for the enabled endpoints and
\* their replies, or Thrown when a promise given to Promise.all is rejected.
performConsensusVerification(endpoints, rs, threshold) ==
  IF NoEndpointsEnabled(endpoints)
    THEN [kind |-> "returned", consensusReached |-> FALSE, results |-> <<>>,
          confirmedCount |-> 0, totalCount |-> 0]
  ELSE LET settled == [i \in 1..Len(endpoints) |->
                         verifyTransactionOnEndpoint(endpoints[i], rs[i])]
           results == [i \in 1..Len(endpoints) |->
                         [endpoint |-> endpoints[i].id, success |-> settled[i].success,
                          status |-> settled[i].status, error |-> settled[i].error]]
           confirmedCount ==
             Cardinality({i \in 1..Len(results) : CountsTowardQuorum(results[i])})
       IN IF \E i \in 1..Len(settled) : settled[i].rejected
            THEN Thrown
            ELSE [kind |-> "returned",
                  consensusReached |-> QuorumReached(confirmedCount, threshold),
                  results |-> results,
                  confirmedCount |-> confirmedCount,
                  totalCount |-> Len(results)]

\* the log lines of one verification, as <<level, line>>
VerificationLog(endpoints, out) ==
  IF NoEndpointsEnabled(endpoints) THEN << <<"warning", "no_endpoints">> >>
  ELSE (IF Len(endpoints) < 3 THEN << <<"warning", "few_endpoints">> >> ELSE <<>>)
         \o << <<"info", "querying">> >>
         \o (IF out.kind = "thrown" THEN <<>>
             ELSE << <<"info", "results">> >>
                    \o [i \in 1..Len(out.results) |->
                          IF out.results[i].success THEN <<"success", "endpoint_ok">>
                                                    ELSE <<"warning", "endpoint_failed">>]
                    \o (IF out.consensusReached
                          THEN << <<"success", "consensus_reached">> >>
                          ELSE << <<"warning", "consensus_not_reached">>,
                                  <<"warning", "check_manually">> >>))

\* ------------------------------------------------------------------ state
VARIABLES
  wallet,          \* wallet.js: TRUE when wallet/provider are set
  sendBtnDisabled, \* elements.sendBtn.disabled
  pc,              \* "idle" | "mint" | "parse" | "batch": where the send invocation stands
  result,          \* how the last invocation ended: none | rejected | false | thrown | true
  error,           \* the error thrown by the last invocation, or "none"
  mintStr, recipientsList, batchSize,   \* arguments of sendTransactions
  decimals,        \* transactions.js: decimals
  allRecipients, completedRecipients, failedRecipients,  \* ui.js progressState
  batches, batchIdx,   \* sendTransactions: batches and the loop index i (1-based)
  stack,           \* frames of processBatchRecursive, innermost last
  last,            \* history: the latest trySendBatch call of this invocation
  attempted,       \* history: the lines that were in some trySendBatch call
  succeeded,       \* history: the lines that were in a trySendBatch call that returned true
  calls,           \* history: trySendBatch calls made for the top-level batch the loop is at
  splits,          \* history: splits performed by this invocation
  anySigned, anyBroadcast, \* history: a transaction was signed / broadcast by this invocation
  registry,        \* rpc-config.js: userRpcEndpoints[cluster] of the current cluster
  minConsensusThreshold,   \* rpc-config.js: minConsensusThreshold
  replies,         \* what the enabled endpoints answered in the verification under way
  outcome,         \* trySendBatch: consensusResult, NoOutcome outside a verification
  queried,         \* the endpoints whose getSignatureStatus was called by it
  vlog,            \* the lines it logged
  primaryId,       \* rpc-config.js: primaryEndpointByCluster[cluster], 0 for null
  connection,      \* transactions.js: the endpoint the module-level connection was built for
  settleOrder,     \* history: the enabled endpoints in the order their queries settled
  fnInput,         \* the arguments of the pure function under study
  fnOutput,        \* what it returned
  loadedConfig,    \* rpc-config.js: loadedConfig.rpc[cluster] of the current cluster
  aliased,         \* the entries of registry are the very objects of loadedConfig
  accounts,        \* the chain: the recipients whose destination token account exists
  usedHashes,      \* history: the blockhashes of the transactions built so far
  built,           \* history: the transaction the latest buildBatchTx returned
  landed,          \* history: the batches whose transaction landed on chain
  lastRes          \* history: what the latest trySendBatch call did

vars == <<wallet, sendBtnDisabled, pc, result, error, mintStr, recipientsList, batchSize,
          decimals, allRecipients, completedRecipients, failedRecipients, batches,
          batchIdx, stack, last, attempted, succeeded, calls, splits, anySigned,
          anyBroadcast, registry, minConsensusThreshold, replies, outcome, queried, vlog,
          primaryId, connection, settleOrder, fnInput, fnOutput, loadedConfig, aliased,
          accounts, usedHashes, built, landed, lastRes>>

ledger == <<allRecipients, completedRecipients, failedRecipients>>
args == <<mintStr, recipientsList, batchSize>>
loopState == <<batches, batchIdx, stack>>
history == <<last, attempted, succeeded, calls, splits, anySigned, anyBroadcast>>
verifier == <<registry, minConsensusThreshold, replies, outcome, queried, vlog>>
config == <<loadedConfig, aliased>>
chain == <<accounts, usedHashes, built, landed, lastRes>>
aux == <<primaryId, connection, settleOrder, fnInput, fnOutput, config, chain>>
sender == <<wallet, sendBtnDisabled, pc, result, error, args, decimals, ledger, loopState,
            history>>

\* before the first attempt of an invocation
NoAttempt ==
  [batch |-> <<>>, top |-> 0, depth |-> 0, sim |-> FALSE, ok |-> FALSE, consensus |-> "none"]

\* main.js init(): setUi(false), resetProgress()
InitSender ==
  /\ wallet = FALSE
  /\ sendBtnDisabled = TRUE
  /\ pc = "idle"
  /\ result = "none"
  /\ error = "none"
  /\ mintStr = ""
  /\ recipientsList = <<>>
  /\ batchSize = 0
  /\ decimals = 0
  /\ allRecipients = <<>>
  /\ completedRecipients = {}
  /\ failedRecipients = <<>>
  /\ batches = <<>>
  /\ batchIdx = 0
  /\ stack = <<>>
  /\ last = NoAttempt
  /\ attempted = {}
  /\ succeeded = {}
  /\ calls = 0
  /\ splits = 0
  /\ anySigned = FALSE
  /\ anyBroadcast = FALSE

\* no verification under way
InitVerifier ==
  /\ replies = <<>>
  /\ outcome = NoOutcome
  /\ queried = {}
  /\ vlog = <<>>

\* main.js init(): no primary endpoint chosen, the connection built by
\* initializeConnection; no function applied
\* rpc-config.js 47-50: userRpcEndpoints[cluster] = [...loadedConfig.rpc[cluster]],
\* a new array of the same entry objects
InitConfigShared ==
  /\ loadedConfig = registry
  /\ aliased = TRUE

\* rpc-config.js 343-351, 320-322: endpoints[idx].enabled = ..., .url = ...
\* assign to the entry object; while the list's entries are loadedConfig's
\* objects, loadedConfig's entry of that id is the entry the handler wrote
SharedEntries(cfg, shared, endpoints) ==
  IF shared
    THEN [k \in DOMAIN cfg |->
           IF \E j \in DOMAIN endpoints : endpoints[j].id = cfg[k].id
             THEN endpoints[CHOOSE j \in DOMAIN endpoints : endpoints[j].id = cfg[k].id]
             ELSE cfg[k]]
    ELSE cfg

\* no transaction built, none landed
NoTx == [blockhash |-> 0, fetched |-> 0, instructions |-> <<>>]
NoRes == [simulated |-> FALSE, simError |-> FALSE, signAsked |-> FALSE, sent |-> FALSE,
          confirmed |-> FALSE, verdict |-> "none", ok |-> FALSE]

InitChain ==
  /\ accounts = {}
  /\ usedHashes = {}
  /\ built = NoTx
  /\ landed = <<>>
  /\ lastRes = NoRes

InitAux ==
  /\ primaryId = 0
  /\ connection = initializeConnection(registry, 0, NoConnection)
  /\ settleOrder = <<>>
  /\ fnInput = <<>>
  /\ fnOutput = <<>>
  /\ InitConfigShared
  /\ InitChain

\* rpc-config.js with neither config.json nor localStorage: the built-in
\* endpoints and the default threshold
Init ==
  /\ InitSender
  /\ InitVerifier
  /\ registry = DefaultRegistry
  /\ minConsensusThreshold = DefaultThreshold
  /\ InitAux

\* wallet.js connectWallet: success path, setUi(true), taken between
\* invocations.
ConnectWallet ==
  /\ pc = "idle"
  /\ wallet' = TRUE
  /\ sendBtnDisabled' = FALSE
  /\ UNCHANGED <<pc, result, error, args, decimals, ledger, loopState, history, verifier, aux>>

\* wallet.js provider.on('disconnect'): wallet = null, provider = null,
\* setUi(false); the event may arrive while an invocation is running
WalletDisconnect ==
  /\ wallet
  /\ wallet' = FALSE
  /\ sendBtnDisabled' = TRUE
  /\ UNCHANGED <<pc, result, error, args, decimals, ledger, loopState, history, verifier, aux>>

\* The invocation ends: the click handler's finally block runs resetSendBtn.
Finish(res, err) ==
  /\ pc' = "idle"
  /\ result' = res
  /\ error' = err
  /\ sendBtnDisabled' = FALSE

\* main.js send button click handler, run up to sendTransactions' first await,
\* with the form holding mint m, recipient lines list and batch size size
ClickHandler(m, list, size) ==
  /\ ~sendBtnDisabled
  /\ pc = "idle"
  /\ mintStr' = m
  /\ recipientsList' = list
  /\ batchSize' = size
  \* resetProgress()
  /\ allRecipients' = <<>>
  /\ completedRecipients' = {}
  /\ failedRecipients' = <<>>
  /\ batches' = <<>>
  /\ batchIdx' = 0
  /\ stack' = <<>>
  /\ last' = NoAttempt
  /\ attempted' = {}
  /\ succeeded' = {}
  /\ calls' = 0
  /\ splits' = 0
  /\ anySigned' = FALSE
  /\ anyBroadcast' = FALSE
  /\ IF m = "" \/ list = <<>> \/ size <= 0 \/ size > BatchSizeLimit
       THEN Finish("rejected", "none")
     ELSE IF ~wallet
       THEN Finish("false", "none")
     ELSE IF ~IsPublicKey(m)
       THEN Finish("thrown", "bad_mint_key")
     ELSE /\ pc' = "mint"
          /\ result' = "none"
          /\ error' = "none"
          /\ sendBtnDisabled' = TRUE
  /\ UNCHANGED <<wallet, decimals, verifier, aux>>

\* The first click on the page: the user has filled in the form.
SendClick(m, list, size) ==
  /\ result = "none"
  /\ ClickHandler(m, list, size)

\* A later click with the form left as it is.
SendAgain ==
  /\ result # "none"
  /\ ClickHandler(mintStr, recipientsList, batchSize)

\* sendTransactions from the mint lookup (line 423) through ensureSenderAtaExists (line 440)
ResolveMint(mint, d, ata) ==
  /\ pc = "mint"
  \* provider.signTransaction (line 229) throws on the null provider
  /\ ~wallet => ata \notin {"created", "send_throw", "confirm_throw"}
  /\ IF mint = "throw" THEN
       /\ Finish("thrown", "rpc_error")
       /\ UNCHANGED <<decimals, anySigned, anyBroadcast>>
     ELSE IF mint = "not_found" THEN
       /\ Finish("thrown", "mint_not_found")
       /\ UNCHANGED <<decimals, anySigned, anyBroadcast>>
     ELSE
       /\ decimals' = d
       /\ anySigned' = (ata \in {"send_throw", "confirm_throw", "created"})
       /\ anyBroadcast' = (ata \in {"confirm_throw", "created"})
       /\ IF ata \in {"exists", "created"}
            THEN /\ pc' = "parse"
                 /\ UNCHANGED <<result, error, sendBtnDisabled>>
            ELSE Finish("thrown", "sender_ata_error")
  /\ UNCHANGED <<wallet, args, ledger, loopState, last, attempted, succeeded, calls, splits,
                 verifier, aux>>

\* Enter the batch loop at index i with the ledger's completed set c: skip the
\* batches that filter to nothing, call processBatchRecursive on the next one,
\* or leave the loop and return true.
EnterLoop(bs, i, c) ==
  LET j == NextBatchIndex(bs, i, c)
  IN /\ batchIdx' = j
     /\ IF j > Len(bs)
          THEN /\ stack' = <<>>
               /\ Finish("true", "none")
          ELSE /\ stack' = <<NewFrame(FilterCompleted(bs[j], c), 0)>>
               /\ UNCHANGED <<pc, result, error, sendBtnDisabled>>

\* sendTransactions lines 442-486: parse, publish allRecipients, build the
\* batches and start the loop
ParseRecipients ==
  /\ pc = "parse"
  /\ LET err == ParseError(recipientsList, decimals)
         rs == ParseRecipientList(recipientsList, decimals)
     IN IF err # "none"
          THEN /\ Finish("thrown", err)
               /\ allRecipients' = PublishedRecipients(rs, err)
               /\ UNCHANGED <<completedRecipients, failedRecipients, loopState>>
          ELSE LET bs == CreateBatches(rs, batchSize)
               IN /\ allRecipients' = PublishedRecipients(rs, err)
                  /\ batches' = bs
                  /\ UNCHANGED <<completedRecipients, failedRecipients>>
                  /\ LET j == NextBatchIndex(bs, 1, completedRecipients)
                     IN /\ batchIdx' = j
                        /\ IF j > Len(bs)
                             THEN /\ stack' = <<>>
                                  /\ Finish("true", "none")
                             ELSE /\ stack' = <<NewFrame(FilterCompleted(bs[j], completedRecipients), 0)>>
                                  /\ pc' = "batch"
                                  /\ UNCHANGED <<result, error, sendBtnDisabled>>
  /\ UNCHANGED <<wallet, args, decimals, history, verifier, aux>>

LinesOf(batch) == [k \in 1..Len(batch) |-> batch[k].line]

Record(f, res) ==
  [batch |-> LinesOf(f.batch), top |-> batchIdx, depth |-> f.depth,
   sim |-> f.stage = "retry", ok |-> res.ok, consensus |-> res.consensus]

\* One trySendBatch call of processBatchRecursive and what follows it up to
\* the next await: the ledger update, the retry, the split, the return to the
\* caller and, when the outermost call returns, the next iteration of the loop.
AttemptSteps(r) ==
  /\ pc = "batch"
  /\ stack # <<>>
  /\ LET f == Last(stack)
         res == trySendBatch(f.batch, f.stage = "retry", WithSigner(r, wallet))
     IN /\ last' = Record(f, res)
        /\ attempted' = attempted \cup {f.batch[k].line : k \in 1..Len(f.batch)}
        /\ succeeded' = IF res.ok THEN succeeded \cup {f.batch[k].line : k \in 1..Len(f.batch)}
                                  ELSE succeeded
        /\ calls' = IF f.depth = 0 /\ f.stage = "first" THEN 1 ELSE calls + 1
        /\ splits' = IF ~res.escaped /\ ~res.ok /\ f.stage = "retry" /\ ~FailsPermanently(f.batch)
                        THEN splits + 1 ELSE splits
        /\ anySigned' = (anySigned \/ res.signed)
        /\ anyBroadcast' = (anyBroadcast \/ res.sent)
        /\ IF res.escaped THEN
             \* an exception leaving trySendBatch ends sendTransactions
             /\ Finish("thrown", "attempt_error")
             /\ UNCHANGED <<completedRecipients, failedRecipients, batchIdx, stack>>
           ELSE
             /\ IF res.ok THEN
                  /\ completedRecipients' = MarkCompleted(completedRecipients, f.batch)
                  /\ UNCHANGED failedRecipients
                ELSE IF f.stage = "retry" /\ FailsPermanently(f.batch) THEN
                  /\ failedRecipients' = Append(failedRecipients, f.batch[1])
                  /\ UNCHANGED completedRecipients
                ELSE UNCHANGED <<completedRecipients, failedRecipients>>
             /\ LET next ==
                      IF f.stage = "first" /\ RetryNeeded(res.ok)
                        THEN Append(Front(stack), [f EXCEPT !.stage = "retry"])
                      ELSE IF res.ok \/ FailsPermanently(f.batch)
                        THEN ReturnFrom(stack)
                      ELSE Append(Append(Front(stack), [f EXCEPT !.stage = "left"]),
                                  NewFrame(LeftHalf(f.batch), f.depth + 1))
                IN IF next = <<>>
                     THEN EnterLoop(batches, batchIdx + 1, completedRecipients')
                     ELSE /\ stack' = next
                          /\ UNCHANGED <<batchIdx, pc, result, error, sendBtnDisabled>>
  /\ UNCHANGED <<wallet, args, decimals, allRecipients, batches, verifier>>

\* the attempt where only the sender's state is followed
Attempt(r) == AttemptSteps(r) /\ UNCHANGED aux

Next ==
  \/ ConnectWallet
  \/ WalletDisconnect
  \/ \E form \in FormInputs : SendClick(form[1], form[2], form[3])
  \/ SendAgain
  \/ \E mint \in {"ok", "not_found", "throw"}, d \in {MintDecimals},
        ata \in {"exists", "created", "get_throw", "sign_throw", "send_throw", "confirm_throw"} :
       ResolveMint(mint, d, ata)
  \/ ParseRecipients
  \/ \E r \in ChainResponses : Attempt(r)

Spec == Init /\ [][Next]_vars

\* Every awaited trySendBatch call settles (the chain client's calls resolve,
\* reject or time out), so the invocation takes its next step.
FairSpec == Spec /\ WF_vars(\E r \in ChainResponses : Attempt(r))

\* ----------------------------------------------- scenario: singles only
\* A chain client with which an attempt on one recipient succeeds and an
\* attempt on several fails: the answers that make trySendBatch return so.
SinglesClient(batch, simulateBefore) ==
  {r \in ChainResponses : trySendBatch(batch, simulateBefore, r).ok = (Len(batch) = 1)}

SinglesAttempt(r) ==
  /\ pc = "batch"
  /\ stack # <<>>
  /\ r \in SinglesClient(Last(stack).batch, Last(stack).stage = "retry")
  /\ Attempt(r)

\* the signer stays connected while an invocation runs
IdleDisconnect == pc = "idle" /\ WalletDisconnect

NextSingles ==
  \/ ConnectWallet
  \/ IdleDisconnect
  \/ \E form \in FormInputs : SendClick(form[1], form[2], form[3])
  \/ SendAgain
  \/ \E mint \in {"ok", "not_found", "throw"}, d \in {MintDecimals},
        ata \in {"exists", "created", "get_throw", "sign_throw", "send_throw", "confirm_throw"} :
       ResolveMint(mint, d, ata)
  \/ ParseRecipients
  \/ \E r \in ChainResponses : SinglesAttempt(r)

SpecSingles ==
  Init /\ [][NextSingles]_vars /\ WF_vars(\E r \in ChainResponses : SinglesAttempt(r))

\* -------------------------------------------- scenario: one bad recipient
\* The recipient no transaction can pay: a transaction with a transfer to it
\* fails, every other transaction succeeds.
BadAddr == "a8"

OneBadClient(batch, simulateBefore) ==
  {r \in ChainResponses :
     trySendBatch(batch, simulateBefore, r).ok
       = (\A k \in 1..Len(batch) : batch[k].address # BadAddr)}

\* the lists "a1, 1" ... "an, 1" of up to ten distinct recipients, as they are
\* and with the seventh and eighth lines exchanged
EndToEndLists ==
  LET inOrder == [i \in 1..Len(AddrOrder) |-> [parts |-> 2, addr |-> AddrOrder[i], amt |-> <<"1">>]]
      swapped == [inOrder EXCEPT ![7] = inOrder[8], ![8] = inOrder[7]]
  IN {SubSeq(l, 1, n) : l \in {inOrder, swapped}, n \in 1..Len(AddrOrder)}

EndToEndForms == {<<"mintA", l, n>> : l \in EndToEndLists, n \in 1..MaxBatch}

OneBadAttempt(r) ==
  /\ pc = "batch"
  /\ stack # <<>>
  /\ r \in OneBadClient(Last(stack).batch, Last(stack).stage = "retry")
  /\ Attempt(r)

NextEndToEnd ==
  \/ ConnectWallet
  \/ IdleDisconnect
  \/ \E form \in EndToEndForms : SendClick(form[1], form[2], form[3])
  \/ SendAgain
  \/ \E mint \in {"ok", "not_found", "throw"}, d \in {MintDecimals},
        ata \in {"exists", "created", "get_throw", "sign_throw", "send_throw", "confirm_throw"} :
       ResolveMint(mint, d, ata)
  \/ ParseRecipients
  \/ \E r \in ChainResponses : OneBadAttempt(r)

SpecEndToEnd == Init /\ [][NextEndToEnd]_vars

\* ------------------------------------------- the consensus verifier alone
\* the page loaded with an endpoint list from config.json or localStorage
InitVerify ==
  /\ InitSender
  /\ InitVerifier
  /\ registry \in RegistryInputs
  /\ minConsensusThreshold = DefaultThreshold
  /\ InitAux

\* rpc-config.js toggleEndpointEnabled(idx)
ToggleEndpointEnabled(idx) ==
  /\ outcome = NoOutcome
  /\ idx \in 1..Len(registry)
  /\ registry' = [registry EXCEPT ![idx].enabled = ~registry[idx].enabled]
  /\ loadedConfig' = SharedEntries(loadedConfig, aliased, registry')
  /\ UNCHANGED <<sender, primaryId, connection, settleOrder, fnInput, fnOutput, aliased,
                 chain, minConsensusThreshold, replies, outcome, queried, vlog>>

\* rpc-config.js updateConsensusThreshold(value)
UpdateConsensusThreshold(val) ==
  /\ outcome = NoOutcome
  /\ IF val >= 1 /\ val <= ThresholdLimit
       THEN minConsensusThreshold' = val
       ELSE UNCHANGED minConsensusThreshold
  /\ UNCHANGED <<sender, aux, registry, replies, outcome, queried, vlog>>

\* trySendBatch line 334: performConsensusVerification(sig) with the enabled
\* endpoints answering rs
PerformConsensusVerification(rs) ==
  /\ outcome = NoOutcome
  /\ LET endpoints == getEnabledEndpoints(registry)
         out == performConsensusVerification(endpoints, rs, minConsensusThreshold)
     IN /\ rs \in ReplyLists(Len(endpoints))
        /\ replies' = rs
        /\ outcome' = out
        /\ queried' = IF NoEndpointsEnabled(endpoints) THEN {}
                       ELSE {endpoints[i].id : i \in {j \in 1..Len(endpoints) : IsQueried(endpoints[j])}}
        /\ vlog' = VerificationLog(endpoints, out)
        /\ LET l == LedgerAfterVerification(ledger, out)
           IN /\ allRecipients' = l[1]
              /\ completedRecipients' = l[2]
              /\ failedRecipients' = l[3]
  /\ UNCHANGED <<wallet, sendBtnDisabled, pc, result, error, args, decimals, loopState,
                 history, aux, registry, minConsensusThreshold>>

\* trySendBatch lines 336-351: the result is used for the warning and dropped
VerificationConsumed ==
  /\ outcome # NoOutcome
  /\ replies' = <<>>
  /\ outcome' = NoOutcome
  /\ queried' = {}
  /\ vlog' = <<>>
  /\ UNCHANGED <<sender, aux, registry, minConsensusThreshold>>

NextVerify ==
  \/ \E idx \in 1..MaxEndpoints : ToggleEndpointEnabled(idx)
  \/ \E val \in 0..MaxThreshold : UpdateConsensusThreshold(val)
  \/ \E rs \in ReplyLists(Len(getEnabledEndpoints(registry))) : PerformConsensusVerification(rs)
  \/ VerificationConsumed

SpecVerify == InitVerify /\ [][NextVerify]_vars


\* ------------------------------------- the amount conversions of ui.js
\* an amount string and the decimals of the mint, nothing converted yet
InitAmount ==
  /\ InitSender
  /\ InitVerifier
  /\ registry = DefaultRegistry
  /\ minConsensusThreshold = DefaultThreshold
  /\ primaryId = 0
  /\ connection = initializeConnection(registry, 0, NoConnection)
  /\ settleOrder = <<>>
  /\ fnInput \in AmountStrings \X DecimalsInputs
  /\ fnOutput = <<>>
  /\ InitConfigShared
  /\ InitChain

\* decimalToAmount(s, d), and formatAmount of what it returned
ConvertAmount ==
  /\ fnOutput = <<>>
  /\ LET str == fnInput[1]
         d == fnInput[2]
     IN fnOutput' = IF IsDecimalString(str)
                      THEN <<"amount", decimalToAmount(str, d),
                             formatAmount(decimalToAmount(str, d), d)>>
                      ELSE <<"Invalid amount">>
  /\ UNCHANGED <<sender, verifier, primaryId, connection, settleOrder, fnInput,
                 config, chain>>

\* sendTransactions lines 443-461 for the list of the one line "a1, <amount>",
\* and createBatches of what it published
ParseAmountLine ==
  /\ fnOutput = <<>>
  /\ LET list == <<[parts |-> 2, addr |-> "a1", amt |-> fnInput[1]]>>
         d == fnInput[2]
         err == ParseError(list, d)
         recipients == PublishedRecipients(ParseRecipientList(list, d), err)
     IN fnOutput' = <<"line", err, recipients, CreateBatches(recipients, 1)>>
  /\ UNCHANGED <<sender, verifier, primaryId, connection, settleOrder, fnInput,
                 config, chain>>

NextAmount == ConvertAmount \/ ParseAmountLine

SpecAmount == InitAmount /\ [][NextAmount]_vars

\* ------------------------------------------- the endpoint URL builder
\* an endpoint entry with a url and perhaps a key, no URL built yet
InitUrl ==
  /\ InitSender
  /\ InitVerifier
  /\ registry = DefaultRegistry
  /\ minConsensusThreshold = DefaultThreshold
  /\ primaryId = 0
  /\ connection = initializeConnection(registry, 0, NoConnection)
  /\ settleOrder = <<>>
  /\ fnInput \in [url : UrlStrings, apiKey : ApiKeys]
  /\ fnOutput = <<>>
  /\ InitConfigShared
  /\ InitChain

\* buildEndpointUrl(endpoint)
BuildEndpointUrl ==
  /\ fnOutput = <<>>
  /\ fnOutput' = <<"url", buildEndpointUrlString(fnInput)>>
  /\ UNCHANGED <<sender, verifier, primaryId, connection, settleOrder, fnInput,
                 config, chain>>

NextUrl == BuildEndpointUrl

SpecUrl == InitUrl /\ [][NextUrl]_vars

\* ------------------------------------------ the threshold's life cycle
\* the page loaded with an endpoint list and a stored threshold
InitThreshold ==
  /\ InitSender
  /\ InitVerifier
  /\ registry \in RegistryInputs
  /\ fnInput \in StoredThresholds
  /\ minConsensusThreshold = LoadThreshold(fnInput)
  /\ fnOutput = <<>>
  /\ primaryId = 0
  /\ connection = initializeConnection(registry, 0, NoConnection)
  /\ settleOrder = <<>>
  /\ InitConfigShared
  /\ InitChain

NextThreshold ==
  \/ \E idx \in 1..MaxEndpoints : ToggleEndpointEnabled(idx)
  \/ \E val \in (0..MaxThreshold) \cup {ThresholdLimit, ThresholdLimit + 1} :
       UpdateConsensusThreshold(val)

SpecThreshold == InitThreshold /\ [][NextThreshold]_vars

\* --------------------------------- the verifier's queries, one by one
\* performConsensusVerification with its awaits as steps: the map of line 167
\* starts one verifyTransactionOnEndpoint promise per enabled endpoint, each
\* settles when its endpoint answers, and Promise.all (line 175) resolves when
\* all have settled.
Pending == [call |-> "pending", status |-> "null", tier |-> "undefined", err |-> "none"]

\* what an endpoint answers in this scenario
FanOutReplies == {Finalized, TimedOut}

\* variant: the results in the order in which the promises settled
CompletionOrder(n, order) == order

\* Promise.all resolves to the values in the order of the promises it was given
PromiseAllOrder(n, order) == [k \in 1..n |-> k]

\* lines 147-166: the warnings, the "Querying" line and the promises
StartVerification ==
  /\ outcome = NoOutcome
  /\ vlog = <<>>
  /\ LET endpoints == getEnabledEndpoints(registry)
         rejected == \E i \in 1..Len(endpoints) :
                       verifyTransactionOnEndpoint(endpoints[i], Pending).rejected
     IN /\ replies' = [i \in 1..Len(endpoints) |-> Pending]
        /\ queried' = IF NoEndpointsEnabled(endpoints) THEN {}
                       ELSE {endpoints[i].id : i \in {j \in 1..Len(endpoints) : IsQueried(endpoints[j])}}
        /\ outcome' = IF NoEndpointsEnabled(endpoints)
                         THEN performConsensusVerification(endpoints, <<>>, minConsensusThreshold)
                       ELSE IF rejected THEN Thrown
                       ELSE NoOutcome
        /\ vlog' = VerificationLog(endpoints, Thrown)
  /\ settleOrder' = <<>>
  /\ UNCHANGED <<sender, registry, minConsensusThreshold, primaryId, connection, fnInput,
                 fnOutput, config, chain>>

\* the promise of the i-th enabled endpoint settles, its endpoint having
\* answered reply
QuerySettles(i, reply) ==
  /\ outcome = NoOutcome
  /\ vlog # <<>>
  /\ i \in 1..Len(replies)
  /\ replies[i] = Pending
  /\ replies' = [replies EXCEPT ![i] = reply]
  /\ settleOrder' = Append(settleOrder, i)
  /\ UNCHANGED <<sender, registry, minConsensusThreshold, outcome, queried, vlog, primaryId,
                 connection, fnInput, fnOutput, config, chain>>

\* lines 175-206: Promise.all has resolved; the count, the log, the return
AllSettled ==
  /\ outcome = NoOutcome
  /\ vlog # <<>>
  /\ \A i \in 1..Len(replies) : replies[i] # Pending
  /\ LET endpoints == getEnabledEndpoints(registry)
         ord == PromiseAllOrder(Len(endpoints), settleOrder)
         out == performConsensusVerification([k \in 1..Len(endpoints) |-> endpoints[ord[k]]],
                                             [k \in 1..Len(endpoints) |-> replies[ord[k]]],
                                             minConsensusThreshold)
     IN /\ outcome' = out
        /\ vlog' = VerificationLog(endpoints, out)
  /\ UNCHANGED <<sender, registry, minConsensusThreshold, replies, queried, settleOrder,
                 primaryId, connection, fnInput, fnOutput, config, chain>>

NextFanOut ==
  \/ \E idx \in 1..MaxEndpoints : ToggleEndpointEnabled(idx) /\ vlog = <<>>
  \/ StartVerification
  \/ \E i \in 1..MaxEndpoints, reply \in FanOutReplies : QuerySettles(i, reply)
  \/ AllSettled

SpecFanOut == InitVerify /\ [][NextFanOut]_vars

\* ------------------------------------ scenario: the page during a send
\* The click handlers of main.js that stay available while an invocation of
\* sendTransactions runs: nothing disables the connect button or the endpoint
\* list.

\* main.js 66-70: connectWallet() succeeds, then initializeConnection
ConnectClick ==
  /\ wallet' = TRUE
  /\ sendBtnDisabled' = FALSE
  /\ connection' = initializeConnection(registry, primaryId, connection)
  /\ UNCHANGED <<pc, result, error, args, decimals, ledger, loopState, history, verifier,
                 primaryId, settleOrder, fnInput, fnOutput, config, chain>>

\* main.js 235-238, 265-267: toggleEndpointEnabled(idx), then initializeConnection
OnToggleEndpointEnabled(idx) ==
  /\ idx \in 1..Len(registry)
  /\ registry' = toggleEndpointEnabled(registry, idx)
  /\ connection' = initializeConnection(registry', primaryId, connection)
  /\ loadedConfig' = SharedEntries(loadedConfig, aliased, registry')
  /\ fnOutput' = <<>>
  /\ UNCHANGED <<sender, minConsensusThreshold, replies, outcome, queried, vlog, primaryId,
                 settleOrder, fnInput, aliased, chain>>

NextUi ==
  \/ NextEndToEnd
  \/ ConnectClick
  \/ \E idx \in 1..MaxEndpoints : OnToggleEndpointEnabled(idx)

SpecUi == Init /\ [][NextUi]_vars

\* ---------------------------------------------- the endpoint list's UI
\* The handlers of the endpoint list (main.js 111-131, 213-251): the
\* rpc-config.js operation, then initializeConnection.  The cluster of this
\* scenario has one or two endpoints in config.json and room for
\* RegistryLimit entries.
RegistryLimit == MaxEndpoints - 2

ConfigRegistries == {[i \in 1..n |-> WellFormedEndpoint(i)] : n \in 1..2}

InitConfig ==
  /\ InitSender
  /\ InitVerifier
  /\ registry \in ConfigRegistries
  /\ minConsensusThreshold = DefaultThreshold
  /\ InitAux

\* spliced is what endpoints.splice returned in the handler, <<>> when the
\* handler did not come to it
RegistryStep(endpoints, primary, spliced) ==
  /\ registry' = endpoints
  /\ primaryId' = primary
  /\ connection' = initializeConnection(endpoints, primary, connection)
  /\ fnOutput' = spliced
  /\ loadedConfig' = SharedEntries(loadedConfig, aliased, endpoints)
  /\ UNCHANGED <<sender, minConsensusThreshold, replies, outcome, queried, vlog,
                 settleOrder, fnInput, aliased, chain>>

OnSetPrimaryEndpoint(idx) ==
  /\ idx \in 1..Len(registry)
  /\ RegistryStep(registry, registry[idx].id, <<>>)

OnMoveEndpointUp(idx) ==
  /\ idx \in 1..Len(registry)
  /\ RegistryStep(moveEndpointUp(registry, idx), primaryId, <<>>)

OnMoveEndpointDown(idx) ==
  /\ idx \in 1..Len(registry)
  /\ RegistryStep(moveEndpointDown(registry, idx), primaryId, <<>>)

OnRemoveEndpoint(idx, confirmed) ==
  /\ idx \in 1..Len(registry)
  /\ LET after == removeEndpoint(registry, idx, confirmed)
     IN RegistryStep(after,
                     IF Len(after) < Len(registry)
                       THEN PrimaryAfterRemoval(primaryId, registry[idx].id)
                       ELSE primaryId,
                     IF Len(after) < Len(registry) THEN <<registry[idx]>> ELSE <<>>)

OnAddCustomEndpoint(now, apiKey) ==
  /\ Len(registry) < RegistryLimit
  /\ RegistryStep(addCustomEndpoint(registry, now, apiKey), primaryId, <<>>)

OnSaveEndpoint(idx, url, apiKey) ==
  /\ idx \in 1..Len(registry)
  /\ RegistryStep(saveEndpoint(registry, idx, url, apiKey), primaryId, <<>>)

NextConfig ==
  \/ \E idx \in 1..MaxEndpoints : OnToggleEndpointEnabled(idx)
  \/ \E idx \in 1..MaxEndpoints : OnSetPrimaryEndpoint(idx)
  \/ \E idx \in 1..MaxEndpoints : OnMoveEndpointUp(idx)
  \/ \E idx \in 1..MaxEndpoints : OnMoveEndpointDown(idx)
  \/ \E idx \in 1..MaxEndpoints, confirmed \in BOOLEAN : OnRemoveEndpoint(idx, confirmed)
  \/ \E now \in ClockReadings : OnAddCustomEndpoint(now, "")
  \/ \E idx \in 1..MaxEndpoints : OnSaveEndpoint(idx, "http", "key")

SpecConfig == InitConfig /\ [][NextConfig]_vars

\* ------------------------------------ scenario: the transactions built
\* The one-bad-recipient run with the chain's accounts and blockhashes in
\* view: which destination token accounts exist changes between attempts, and
\* getLatestBlockhash answers what the chain has at that moment.

\* what getLatestBlockhash can answer; the chain repeats an answer while no new
\* block is confirmed
Blockhashes == {1, 2}

\* variant: every recipient's account is created, whether or not it exists
RECURSIVE InstructionsCreateAll(_, _)
InstructionsCreateAll(batch, existing) ==
  IF batch = <<>> THEN <<>>
  ELSE LET r == Head(batch)
           transfer == [kind |-> "transfer", line |-> r.line, address |-> r.address]
       IN <<[transfer EXCEPT !.kind = "create"], transfer>>
            \o InstructionsCreateAll(Tail(batch), existing)

\* buildBatchTx lines 248-266: per recipient, the account-creation instruction
\* when getAccountInfo(destAta) found nothing, then the transfer
RECURSIVE Instructions(_, _)
Instructions(batch, existing) ==
  IF batch = <<>> THEN <<>>
  ELSE LET r == Head(batch)
           transfer == [kind |-> "transfer", line |-> r.line, address |-> r.address]
       IN (IF r.address \in existing
             THEN <<transfer>>
             ELSE <<[transfer EXCEPT !.kind = "create"], transfer>>)
            \o Instructions(Tail(batch), existing)

\* buildBatchTx lines 239-269 with getLatestBlockhash answering hash and
\* getAccountInfo finding the accounts of existing
buildBatchTx(batch, existing, hash) ==
  [blockhash |-> hash, fetched |-> hash, instructions |-> Instructions(batch, existing)]

AddressesOf(batch) == {batch[k].address : k \in 1..Len(batch)}

\* trySendBatch with what its buildBatchTx call fetched and built
BuildAttempt(r, hash) ==
  /\ pc = "batch"
  /\ stack # <<>>
  /\ r \in OneBadClient(Last(stack).batch, Last(stack).stage = "retry")
  /\ AttemptSteps(r)
  /\ LET f == Last(stack)
         res == trySendBatch(f.batch, f.stage = "retry", WithSigner(r, wallet))
     IN /\ built' = IF r.build = "ok" THEN buildBatchTx(f.batch, accounts, hash) ELSE NoTx
        /\ usedHashes' = IF r.build = "ok" THEN usedHashes \cup {hash} ELSE usedHashes
        \* a confirmed transaction has created the accounts it had to
        /\ accounts' = IF res.confirmed THEN accounts \cup AddressesOf(f.batch) ELSE accounts
  /\ UNCHANGED <<primaryId, connection, settleOrder, fnInput, fnOutput, config, landed,
                 lastRes>>

\* somebody else creates the token account of a recipient
AccountCreated(a) ==
  /\ pc = "batch"
  /\ a \notin accounts
  /\ accounts' = accounts \cup {a}
  /\ UNCHANGED <<sender, verifier, primaryId, connection, settleOrder, fnInput, fnOutput,
                 config, usedHashes, built, landed, lastRes>>

NextBuild ==
  \/ ConnectWallet
  \/ IdleDisconnect
  \/ \E form \in EndToEndForms : SendClick(form[1], form[2], form[3])
  \/ SendAgain
  \/ \E mint \in {"ok", "not_found", "throw"}, d \in {MintDecimals},
        ata \in {"exists", "created", "get_throw", "sign_throw", "send_throw", "confirm_throw"} :
       ResolveMint(mint, d, ata)
  \/ ParseRecipients
  \/ \E r \in ChainResponses, hash \in Blockhashes : BuildAttempt(r, hash)
  \/ \E a \in {AddrOrder[1], AddrOrder[2]} : AccountCreated(a)

SpecBuild == Init /\ [][NextBuild]_vars

\* ------------------------------- scenario: what the chain has accepted
\* One invocation on a freshly loaded page for a list shorter than MaxLines,
\* the signer staying connected and the chain client answering each attempt in
\* any way, with the transactions that landed in view: a
\* transaction the RPC node accepted (sendRawTransaction returned a signature)
\* lands when confirmSig reports success, does not land when the confirmation
\* reports an execution error, and may or may not have landed when the
\* confirmation call throws (a timeout, a network error).
ChainForms ==
  {<<"mintA", l, n>> : l \in {t \in EndToEndLists : Len(t) < MaxLines}, n \in 1..MaxBatch}

\* whether the transaction of an attempt can have landed
MayLand(res, r, lands) ==
  IF res.confirmed THEN lands
  ELSE IF res.sent /\ r.confirm = "throw" THEN TRUE
  ELSE ~lands

\* trySendBatch with what it did and whether its transaction landed
ChainAttempt(r, lands) ==
  /\ AttemptSteps(r)
  /\ LET f == Last(stack)
         res == trySendBatch(f.batch, f.stage = "retry", WithSigner(r, wallet))
     IN /\ MayLand(res, r, lands)
        /\ lastRes' = [simulated |-> res.simulated,
                       simError |-> res.simulated /\ r.sim # "ok",
                       signAsked |-> res.signAsked,
                       sent |-> res.sent, confirmed |-> res.confirmed,
                       verdict |-> IF res.confirmed THEN r.verify ELSE "none",
                       ok |-> res.ok]
        /\ landed' = IF lands THEN Append(landed, LinesOf(f.batch)) ELSE landed
  /\ UNCHANGED <<primaryId, connection, settleOrder, fnInput, fnOutput, config, accounts,
                 usedHashes, built>>

NextChain ==
  \/ ConnectWallet
  \/ IdleDisconnect
  \/ \E form \in ChainForms : SendClick(form[1], form[2], form[3])
  \/ \E mint \in {"ok", "not_found", "throw"}, d \in {MintDecimals},
        ata \in {"exists", "created", "get_throw", "sign_throw", "send_throw", "confirm_throw"} :
       ResolveMint(mint, d, ata)
  \/ ParseRecipients
  \/ \E r \in ChainResponses, lands \in BOOLEAN : ChainAttempt(r, lands)

SpecChain == Init /\ [][NextChain]_vars

\* ------------------------------------------------ the page's start-up
\* main.js init(): initRpcConfig (loadConfig, then the merge with what
\* localStorage holds), then initializeConnection; after it the toggle,
\* set-primary and remove handlers of the endpoint list and the reset button.

\* what config.json holds for the cluster when it is served
ConfigLists ==
  {[i \in 1..n |-> WellFormedEndpoint(i)] : n \in 0..2}
    \cup {<<[WellFormedEndpoint(1) EXCEPT !.enabled = FALSE]>>}

\* fetch('./config.json'): the response is not ok, fetch or response.json()
\* throws, the document has no rpc property, it has none for the cluster, or
\* it has a list for the cluster
FetchOutcomes ==
  {[kind |-> k, rpc |-> <<>>] : k \in {"not_ok", "throws", "no_rpc", "no_cluster"}}
    \cup {[kind |-> "loaded", rpc |-> l] : l \in ConfigLists}

\* config.js loadConfig, the list of the current cluster
loadConfig(fetched) ==
  IF fetched.kind = "loaded" THEN fetched.rpc ELSE DefaultRegistry

\* a custom endpoint as saveRpcEndpoints stored it
StoredCustom(now) ==
  [id |-> CustomId(now), enabled |-> TRUE, url |-> "http", apiKey |-> "", isDefault |-> FALSE]

\* localStorage rpcEndpointsConfig: absent, not parseable, without an array
\* for the cluster, or with a list for it
StoredLists ==
  {<<[WellFormedEndpoint(1) EXCEPT !.enabled = FALSE]>>,
   <<StoredCustom(1), [WellFormedEndpoint(2) EXCEPT !.enabled = FALSE], StoredCustom(1)>>}

StoredOutcomes ==
  {[kind |-> k, list |-> <<>>] : k \in {"absent", "unparseable", "no_list"}}
    \cup {[kind |-> "parsed", list |-> l] : l \in StoredLists}

\* localStorage primaryEndpointByCluster[cluster], 0 when absent or null
StoredPrimaries == {0, 1, CustomId(1)}

\* rpc-config.js mergeEndpoints lines 87-102, the loop over userEndpoints
RECURSIVE MergeFrom(_, _)
MergeFrom(merged, userEndpoints) ==
  IF userEndpoints = <<>> THEN merged
  ELSE LET userEp == Head(userEndpoints)
           found == {i \in 1..Len(merged) : merged[i].id = userEp.id}
           first == CHOOSE i \in found : \A j \in found : i <= j
       IN MergeFrom(IF ~userEp.isDefault
                      THEN IF found = {} THEN Append(merged, userEp) ELSE merged
                    ELSE IF found # {}
                      THEN [merged EXCEPT ![first].enabled = userEp.enabled]
                    ELSE merged,
                    Tail(userEndpoints))

\* rpc-config.js mergeEndpoints(configEndpoints, userEndpoints)
mergeEndpoints(configEndpoints, stored) ==
  IF stored.kind = "parsed" THEN MergeFrom(configEndpoints, stored.list) ELSE configEndpoints

\* rpc-config.js initRpcConfig lines 21-52: userRpcEndpoints[cluster]
initRpcConfig(fetched, stored) == mergeEndpoints(loadConfig(fetched), stored)

InitLoad ==
  /\ InitSender
  /\ InitVerifier
  /\ InitChain
  /\ minConsensusThreshold = DefaultThreshold
  /\ settleOrder = <<>>
  /\ fnOutput = <<>>
  /\ fnInput \in [fetched : FetchOutcomes, stored : StoredOutcomes, primary : StoredPrimaries]
  /\ registry = initRpcConfig(fnInput.fetched, fnInput.stored)
  /\ loadedConfig = SharedEntries(loadConfig(fnInput.fetched), TRUE, registry)
  /\ aliased = TRUE
  /\ primaryId = fnInput.primary
  /\ connection = initializeConnection(registry, primaryId, NoConnection)

\* rpc-config.js resetEndpointsToDefaults lines 443-450: the list becomes a deep
\* copy of loadedConfig's list as it is now
resetEndpointsToDefaults(endpoints, defaults, confirmed) ==
  IF confirmed THEN defaults ELSE endpoints

\* main.js 139-142: resetEndpointsToDefaults(), then initializeConnection
OnResetEndpoints(confirmed) ==
  /\ registry' = resetEndpointsToDefaults(registry, loadedConfig, confirmed)
  /\ primaryId' = IF confirmed THEN 0 ELSE primaryId
  /\ aliased' = (aliased /\ ~confirmed)
  /\ connection' = initializeConnection(registry', primaryId', connection)
  /\ fnOutput' = IF confirmed THEN <<"reset">> ELSE fnOutput
  /\ UNCHANGED <<sender, minConsensusThreshold, replies, outcome, queried, vlog,
                 settleOrder, fnInput, loadedConfig, chain>>

NextLoad ==
  \/ \E idx \in 1..MaxEndpoints : OnToggleEndpointEnabled(idx)
  \/ \E idx \in 1..MaxEndpoints : OnSetPrimaryEndpoint(idx)
  \/ \E idx \in 1..MaxEndpoints, confirmed \in BOOLEAN : OnRemoveEndpoint(idx, confirmed)
  \/ \E confirmed \in BOOLEAN : OnResetEndpoints(confirmed)

SpecLoad == InitLoad /\ [][NextLoad]_vars

\* ------------------------------- scenario: verifications during a send
\* The one-bad-recipient run with the verification of trySendBatch line 334 as
\* a step of its own: it runs for the attempt under way, with the ledger as
\* that attempt found it, and may be run again for the same signature.
VerifyDuringSend(rs) == pc = "batch" /\ stack # <<>> /\ PerformConsensusVerification(rs)

NextSendVerify ==
  \/ outcome = NoOutcome /\ NextEndToEnd
  \/ \E rs \in ReplyLists(Len(getEnabledEndpoints(registry))) : VerifyDuringSend(rs)
  \/ VerificationConsumed

SpecSendVerify == Init /\ [][NextSendVerify]_vars

\* ================================================================ claims
LineSet(b) == {b[k] : k \in 1..Len(b)}
FailedLines == {failedRecipients[k].line : k \in 1..Len(failedRecipients)}
TimesFailed(r) == Cardinality({k \in 1..Len(failedRecipients) : failedRecipients[k].line = r.line})
IsCompleted(r) == r.address \in completedRecipients
IsFailed(r) == r.line \in FailedLines
IsTerminal(r) == IsCompleted(r) \/ IsFailed(r)

\* sendTransactions has returned true, that is, after its batch loop
Returned == pc = "idle" /\ result = "true"

ValidationErrors ==
  {"bad_mint_key", "mint_not_found", "invalid_line", "bad_address", "invalid_amount",
   "amount_not_positive"}

\* the lines of top-level batch i of a list of n lines cut in batches of size
TopLevelLines(i, n, size) == {k \in 1..n : (i - 1) * size < k /\ k <= i * size}

\* C1: when sendTransactions returns after its batch loop, every recipient line
\* of allRecipients is in exactly one of completedRecipients and
\* failedRecipients, and in failedRecipients at most once.
C1_ExactlyOneTerminalState ==
  Returned =>
    \A i \in 1..Len(allRecipients) :
      LET r == allRecipients[i]
      IN /\ IsCompleted(r) # IsFailed(r)
         /\ TimesFailed(r) <= 1

\* C2: lines that hold the same address are independent line items: when
\* sendTransactions returns, every line has been in a submission attempt and
\* has reached a terminal state.
C2_DuplicateLinesIndependent ==
  Returned =>
    \A i \in 1..Len(allRecipients) :
      /\ allRecipients[i].line \in attempted
      /\ IsTerminal(allRecipients[i])

\* C3: a recipient marked completed or failed is not in the batch of any later
\* trySendBatch call, and a recipient marked failed is never marked completed.
C3_TerminalNeverReattempted ==
  /\ pc = "batch" =>
       \A k \in 1..Len(Last(stack).batch) : ~IsTerminal(Last(stack).batch[k])
  /\ \A k \in 1..Len(failedRecipients) : ~IsCompleted(failedRecipients[k])

\* a trySendBatch call is made in this step
AttemptStep == pc = "batch" /\ last' # last

\* the order in which batches get their first attempt: by first line, and
\* among batches with the same first line the longer one first
AttemptedBefore(b1, b2) ==
  \/ b1[1] < b2[1]
  \/ b1[1] = b2[1] /\ Len(b1) > Len(b2)

\* C4: a (sub-)batch is attempted at most twice: an attempt with simulation is
\* made exactly when the attempt before it was the failed plain attempt on the
\* same batch, and a plain attempt is always on a batch later in the order of
\* first attempts than every batch attempted before, so no batch gets a second
\* plain attempt or a third attempt.
C4_AtMostTwoAttempts ==
  [][(pc = "batch" /\ wallet' = wallet) =>
       /\ AttemptStep
       /\ last'.batch # <<>>
       /\ last'.sim <=> (last.batch = last'.batch /\ ~last.sim /\ ~last.ok)
       /\ (~last'.sim /\ last.batch # <<>>) => AttemptedBefore(last.batch, last'.batch)]_vars

C4_Witness == last.sim /\ last.ok /\ Len(last.batch) >= 2

\* the frames of processBatchRecursive are nested as the split prescribes: the
\* callee of a frame awaiting its left half holds the first floor(n/2)
\* recipients, the callee of a frame awaiting its right half holds the others,
\* at depth + 1, and then every recipient of the left half is terminal and was
\* attempted
SplitShape ==
  \A k \in 1..(Len(stack) - 1) :
    LET b == stack[k].batch
        n == Len(b)
        c == stack[k + 1]
    IN /\ n >= 2
       /\ c.depth = stack[k].depth + 1
       /\ stack[k].stage \in {"left", "right"}
       /\ stack[k].stage = "left" => c.batch = SubSeq(b, 1, n \div 2)
       /\ stack[k].stage = "right" =>
            /\ c.batch = SubSeq(b, (n \div 2) + 1, n)
            /\ Len(c.batch) = n - (n \div 2)
            /\ \A j \in 1..(n \div 2) : IsTerminal(b[j]) /\ b[j].line \in attempted

\* C5: when both attempts on a batch of n >= 2 fail, the next call is on its
\* first floor(n/2) recipients at depth + 1; the caller stays until that call
\* has returned and then calls on the remaining n - floor(n/2) recipients at
\* depth + 1, when the whole left half is terminal.
C5_SplitLeftThenRight ==
  [][pc = "batch" =>
       /\ (AttemptStep /\ last'.sim /\ ~last'.ok /\ Len(last'.batch) >= 2) =>
            LET n == Len(last'.batch)
                m == Len(stack')
            IN /\ m >= 2
               /\ stack'[m].stage = "first"
               /\ stack'[m].depth = last'.depth + 1
               /\ LinesOf(stack'[m].batch) = SubSeq(last'.batch, 1, n \div 2)
               /\ stack'[m - 1].stage = "left"
               /\ LinesOf(stack'[m - 1].batch) = last'.batch
       /\ \A k \in 1..(Len(stack) - 1) :
            stack[k].stage = "left" =>
              /\ Len(stack') > k
              /\ stack'[k].batch = stack[k].batch
              /\ stack'[k].stage \in {"left", "right"}
       /\ SplitShape']_vars

C5_Witness ==
  /\ Len(stack) >= 2
  /\ stack[1].stage = "right"
  /\ Len(stack[1].batch) = 4
  /\ \E j \in 1..2 : IsFailed(stack[1].batch[j])

\* C6: failedRecipients grows only by the sole recipient of a batch of size 1
\* whose plain attempt and simulated retry have both failed, and no recipient
\* in failedRecipients is in the batch of a later attempt.
C6_FailedOnlyAfterSingleRetry ==
  [][IF AttemptStep
       THEN /\ LineSet(last'.batch) \cap FailedLines = {}
            /\ IF /\ Len(last'.batch) = 1
                  /\ last'.sim /\ ~last'.ok
                  /\ last.batch = last'.batch /\ ~last.sim /\ ~last.ok
                 THEN failedRecipients' =
                        Append(failedRecipients, allRecipients[last'.batch[1]])
                 ELSE failedRecipients' = failedRecipients
       ELSE failedRecipients' \in {failedRecipients, <<>>}]_vars

C6_Witness == failedRecipients # <<>> /\ pc = "batch"

C8_BatchesInOrder ==
  [][AttemptStep =>
       /\ last'.top = batchIdx
       /\ LineSet(last'.batch) \subseteq TopLevelLines(batchIdx, Len(allRecipients), batchSize)
       /\ batchIdx' >= batchIdx
       /\ \A i \in 1..Len(allRecipients) :
            (i <= (batchIdx' - 1) * batchSize) => IsTerminal(allRecipients[i])']_vars

C8_Witness ==
  /\ pc = "batch"
  /\ batchIdx = 2
  /\ last.top = 2
  /\ \E k \in 1..Len(failedRecipients) : failedRecipients[k].line <= batchSize
  /\ batchSize >= 2

\* C9: no failure of an attempt leaves processBatchRecursive as an exception or
\* stops the loop: an invocation that has made an attempt does not end by
\* throwing, the loop always has a next call to make, and it returns only when
\* it has gone through every batch and every recipient is completed or failed.
C9_FailuresDoNotAbort ==
  /\ result = "thrown" => last = NoAttempt
  /\ pc = "batch" => stack # <<>> /\ Last(stack).stage \in {"first", "retry"}
  /\ Returned =>
       /\ (batchIdx - 1) * batchSize >= Len(allRecipients)
       /\ \A i \in 1..Len(allRecipients) : IsTerminal(allRecipients[i])

C9_Witness ==
  /\ Returned
  /\ \E k \in 1..Len(failedRecipients) : failedRecipients[k].line <= batchSize
  /\ last.top >= 2
  /\ last.ok

\* C10: a validation error is raised before any transaction of the invocation
\* has been signed or broadcast, the creation of the sender's token account
\* included.
C10_ValidationBeforeSubmission ==
  (result = "thrown" /\ error \in ValidationErrors) => (~anySigned /\ ~anyBroadcast)

\* the invocation ended with an invocation-fatal outcome: no wallet, or a
\* validation error or a missing mint thrown
FatalOutcome ==
  /\ pc = "idle"
  /\ \/ result = "false"
     \/ result = "thrown" /\ error \in ValidationErrors

\* C11: when sendTransactions ends with an invocation-fatal outcome, the
\* ledger is as it was when the invocation started (what resetProgress left:
\* nothing in allRecipients, completedRecipients and failedRecipients) and no
\* batch attempt was made.
C11_FatalLeavesNoPartialState ==
  FatalOutcome =>
    /\ allRecipients = <<>>
    /\ completedRecipients = {}
    /\ failedRecipients = <<>>
    /\ last = NoAttempt
    /\ attempted = {}
    /\ stack = <<>>

\* a list whose second line is the defective one ended the invocation
C11_Witness ==
  /\ FatalOutcome
  /\ error \in {"invalid_line", "bad_address", "invalid_amount", "amount_not_positive"}
  /\ Len(recipientsList) >= 2
  /\ LineError(recipientsList[1], decimals) = "none"

\* the outermost processBatchRecursive call returns in this step
TopLevelReturns == pc = "batch" /\ (batchIdx' # batchIdx \/ pc' = "idle")

\* C12: with a chain client that fails every attempt on several recipients and
\* succeeds every attempt on one, processBatchRecursive on a batch of n
\* terminates; every successful attempt is on a single recipient that had not
\* been sent before, at the return all n recipients have been sent and are
\* completed, none is failed, and 2(n-1) failed and n successful calls were made.
C12_SinglesAllComplete ==
  /\ [][AttemptStep =>
          /\ last'.ok <=> Len(last'.batch) = 1
          /\ last'.ok => last'.batch[1] \notin succeeded
          /\ failedRecipients' = <<>>
          /\ TopLevelReturns =>
               LET b == stack[1].batch
               IN /\ \A k \in 1..Len(b) :
                       /\ b[k].line \in succeeded'
                       /\ b[k].address \in completedRecipients'
                  /\ calls' = 2 * (Len(b) - 1) + Len(b)]_vars
  /\ (pc = "batch") ~> (pc = "idle")

C12_Witness ==
  /\ Returned
  /\ batchSize = 4
  /\ Len(allRecipients) = 4
  /\ Cardinality(succeeded) = 4
  /\ Cardinality(completedRecipients) = 4
  /\ calls = 10

\* the least k with 2^k >= n
CeilLog2(n) == CHOOSE k \in 0..n : 2^k >= n /\ \A j \in 0..(k - 1) : 2^j < n

\* C13: whatever the attempts answer, processBatchRecursive on a batch of n
\* terminates, no call is at a depth above ceil(log2(n)) and at most 2(2n-1)
\* trySendBatch calls are made.
C13_BoundedRecursion ==
  /\ [][AttemptStep =>
          LET n == Len(stack[1].batch)
          IN /\ last'.depth <= CeilLog2(n)
             /\ \A k \in 1..Len(stack') : stack'[k].depth <= CeilLog2(n)
             /\ calls' <= 2 * (2 * n - 1)]_vars
  /\ (pc = "batch") ~> (pc = "idle")

C13_Witness ==
  /\ calls = 2 * (2 * 4 - 1)
  /\ last.depth = 2
  /\ Len(failedRecipients) = 4

\* the scenario of ten distinct recipients sent in batches of 4
TenByFour == Len(allRecipients) = 10 /\ batchSize = 4 /\ pc # "parse"

\* the line of the recipient that cannot be paid
BadLine == CHOOSE i \in 1..Len(allRecipients) : allRecipients[i].address = BadAddr

\* C14: ten distinct recipients in batches of 4 make batches of sizes 4, 4, 2;
\* when batch 1 succeeds at once, batch 2 fails twice, its left half succeeds,
\* its right half fails twice and splits in two singles of which one fails both
\* attempts and the other succeeds, and batch 3 succeeds at once, the
\* invocation ends with 9 recipients completed, 1 failed and 2 splits.
C14_EndToEnd ==
  /\ [][(TenByFour /\ AttemptStep) =>
          /\ last'.batch \in {<<1, 2, 3, 4>>, <<5, 6, 7, 8>>, <<5, 6>>, <<7, 8>>, <<7>>, <<8>>,
                               <<9, 10>>}
          /\ last'.ok <=> last'.batch \in {<<1, 2, 3, 4>>, <<5, 6>>, <<15 - BadLine>>, <<9, 10>>}
          /\ last'.sim <=> (last = [last' EXCEPT !.sim = FALSE])]_vars
  /\ [](TenByFour =>
          /\ [k \in 1..Len(batches) |-> Len(batches[k])] = <<4, 4, 2>>
          /\ BadLine \in {7, 8}
          /\ Returned =>
               /\ Cardinality(completedRecipients) = 9
               /\ completedRecipients = {AddrOrder[i] : i \in 1..10} \ {BadAddr}
               /\ failedRecipients = <<allRecipients[BadLine]>>
               /\ splits = 2)

C14_Witness ==
  /\ TenByFour
  /\ Returned
  /\ splits = 2
  /\ BadLine = 7
  /\ Len(failedRecipients) = 1

RECURSIVE Concat(_)
Concat(bs) == IF bs = <<>> THEN <<>> ELSE Concat(Front(bs)) \o Last(bs)

\* b holds recipients of the list in the order of the list
InListOrder(b) ==
  /\ \A k \in 1..Len(b) : b[k].line \in 1..Len(allRecipients) /\ b[k] = allRecipients[b[k].line]
  /\ \A k \in 1..(Len(b) - 1) : b[k].line < b[k + 1].line

\* C15: the batches are consecutive slices of the parsed recipients in input
\* order: each but the last has exactly batchSize recipients, the last has
\* between 1 and batchSize, and their concatenation is the recipient list;
\* every batch passed to processBatchRecursive, at depth 0 or by a split, is
\* non-empty, has at most batchSize recipients and keeps the list's order.
C15_BatchesPartitionList ==
  /\ Concat(batches) = allRecipients
  /\ \A k \in 1..Len(batches) :
       /\ Len(batches[k]) \in 1..batchSize
       /\ k < Len(batches) => Len(batches[k]) = batchSize
  /\ allRecipients # <<>> => batches # <<>>
  /\ \A k \in 1..Len(stack) :
       /\ Len(stack[k].batch) \in 1..batchSize
       /\ InListOrder(stack[k].batch)
       /\ stack[k].depth = k - 1
       /\ LineSet(LinesOf(stack[k].batch))
            \subseteq TopLevelLines(batchIdx, Len(allRecipients), batchSize)

C15_Witness ==
  /\ Len(batches) = 2
  /\ Len(batches[1]) = 3
  /\ Len(batches[2]) = 1
  /\ Len(stack) = 3
  /\ batchIdx = 1

\* ------------------------------------------------ the consensus verifier
\* a verification has returned its ConsensusOutcome
VerificationReturned == outcome.kind = "returned"

EnabledEndpoints == getEnabledEndpoints(registry)

\* the enabled endpoints that answered "finalized" with no execution error
FinalizedReplies ==
  {i \in 1..Len(replies) : EnabledEndpoints[i].url = "http" /\ replies[i] = Finalized}

\* C16: whatever the endpoints answer, the outcome has consensusReached =
\* (confirmedCount >= minConsensusThreshold), totalCount = the number of
\* enabled endpoints and 0 <= confirmedCount <= totalCount; confirmedCount is
\* the number of finalized answers, and with 5 endpoints and threshold 2 the
\* finalized counts 0, 1, 2, 3, 5 give false, false, true, true, true.
C16_QuorumMath ==
  VerificationReturned =>
    LET f == Cardinality(FinalizedReplies)
    IN /\ outcome.consensusReached = (outcome.confirmedCount >= minConsensusThreshold)
       /\ outcome.totalCount = Cardinality({i \in 1..Len(registry) : registry[i].enabled})
       /\ outcome.confirmedCount \in 0..outcome.totalCount
       /\ outcome.confirmedCount = f
       /\ (outcome.totalCount = 5 /\ minConsensusThreshold = 2) =>
            /\ f \in {0, 1} => outcome.consensusReached = FALSE
            /\ f \in {2, 3, 5} => outcome.consensusReached = TRUE

C16_Witness ==
  /\ VerificationReturned
  /\ outcome.totalCount = 5
  /\ minConsensusThreshold = 2
  /\ outcome.confirmedCount = 2
  /\ outcome.consensusReached

\* C17: confirmedCount is the number of results whose status is exactly
\* "finalized"; an endpoint answering "confirmed" gets success = true and does
\* not count, so with fewer finalized answers than the threshold the quorum is
\* not reached however many endpoints answer "confirmed".
C17_OnlyFinalizedCounts ==
  VerificationReturned =>
    /\ outcome.confirmedCount
         = Cardinality({i \in 1..Len(outcome.results) : outcome.results[i].status = "finalized"})
    /\ \A i \in 1..Len(replies) :
         (EnabledEndpoints[i].url = "http" /\ replies[i] = Confirmed) =>
           /\ outcome.results[i].success
           /\ outcome.results[i].status = "confirmed"
    /\ Cardinality(FinalizedReplies) < minConsensusThreshold => ~outcome.consensusReached

C17_Witness ==
  /\ VerificationReturned
  /\ minConsensusThreshold = 2
  /\ Cardinality({i \in 1..Len(replies) : replies[i] = Confirmed}) >= 3
  /\ Cardinality(FinalizedReplies) = 1
  /\ ~outcome.consensusReached

\* C18: a verification ends by returning one result per enabled endpoint, in
\* the endpoints' order; an endpoint whose query throws gets success = false,
\* status "error" and the exception's message, and nothing thrown while an
\* endpoint is verified leaves performConsensusVerification.
C18_EveryEndpointReported ==
  outcome # NoOutcome =>
    /\ outcome.kind = "returned"
    /\ Len(outcome.results) = Len(EnabledEndpoints)
    /\ \A i \in 1..Len(EnabledEndpoints) :
         /\ outcome.results[i].endpoint = EnabledEndpoints[i].id
         /\ (EnabledEndpoints[i].url = "http" /\ replies[i].call = "throws_error") =>
              /\ ~outcome.results[i].success
              /\ outcome.results[i].status = "error"
              /\ outcome.results[i].error = "timeout"

\* C19: with no endpoint enabled the verification calls no endpoint and
\* returns consensusReached = false, confirmedCount = 0, totalCount = 0 and no
\* results, and logs one line, at warning level.
C19_NoEndpointsNoQueries ==
  (outcome # NoOutcome /\ \A i \in 1..Len(registry) : ~registry[i].enabled) =>
    /\ outcome = [kind |-> "returned", consensusReached |-> FALSE, results |-> <<>>,
                  confirmedCount |-> 0, totalCount |-> 0]
    /\ queried = {}
    /\ vlog = << <<"warning", "no_endpoints">> >>

C19_Witness ==
  /\ outcome # NoOutcome
  /\ Len(registry) >= 2
  /\ \A i \in 1..Len(registry) : ~registry[i].enabled

\* C20: a status reply is mapped in this order: no record gives
\* failure/not_found; a record with an execution error gives failure/error with
\* the stringified error whatever its tier; else finalized gives
\* success/finalized, confirmed success/confirmed, processed failure/processed.
C20_StatusMapping ==
  VerificationReturned =>
    \A i \in 1..Len(replies) :
      (EnabledEndpoints[i].url = "http" /\ replies[i].call = "returns") =>
        LET p == replies[i]
            r == outcome.results[i]
        IN /\ p.status # "value" => ~r.success /\ r.status = "not_found"
           /\ (p.status = "value" /\ p.err # "none") =>
                ~r.success /\ r.status = "error" /\ r.error = <<"json", p.err>>
           /\ (p.status = "value" /\ p.err = "none") =>
                /\ p.tier = "finalized" => r.success /\ r.status = "finalized"
                /\ p.tier = "confirmed" => r.success /\ r.status = "confirmed"
                /\ p.tier = "processed" => ~r.success /\ r.status = "processed"

C20_Witness ==
  /\ VerificationReturned
  /\ \E i \in 1..Len(replies) :
       /\ replies[i].status = "value"
       /\ replies[i].tier = "finalized"
       /\ replies[i].err # "none"
       /\ outcome.results[i].status = "error"

StatusValues == {"finalized", "confirmed", "processed", "not_found", "error", "unknown"}

\* C21: the status of every result is one of finalized, confirmed, processed,
\* not_found, error, unknown; a record with no execution error whose tier is
\* none of finalized, confirmed, processed (a missing tier included) gives
\* success = false with status "unknown".
C21_StatusSetClosed ==
  VerificationReturned =>
    \A i \in 1..Len(replies) :
      /\ outcome.results[i].status \in StatusValues
      /\ (/\ EnabledEndpoints[i].url = "http"
          /\ replies[i].call = "returns"
          /\ replies[i].status = "value"
          /\ replies[i].err = "none"
          /\ replies[i].tier \notin {"finalized", "confirmed", "processed"}) =>
           /\ ~outcome.results[i].success
           /\ outcome.results[i].status = "unknown"

\* the line that announces the queries (line 164) and the warnings before it
QueryingAt == CHOOSE k \in 1..Len(vlog) : vlog[k] = <<"info", "querying">>
WarnedBeforeQuerying ==
  IF \E k \in 1..Len(vlog) : vlog[k] = <<"info", "querying">>
    THEN \E k \in 1..(QueryingAt - 1) : vlog[k][1] = "warning"
    ELSE \E k \in 1..Len(vlog) : vlog[k][1] = "warning"

\* C22: a verification that runs with fewer enabled endpoints than
\* minConsensusThreshold logs a warning before it queries any endpoint.
C22_WarnedWhenQuorumUnreachable ==
  (outcome # NoOutcome /\ Len(EnabledEndpoints) < minConsensusThreshold) =>
    WarnedBeforeQuerying

\* a step in which performConsensusVerification ran
VerificationStep == outcome = NoOutcome /\ outcome' # NoOutcome

\* C23: a run of performConsensusVerification, whatever the endpoints answer
\* and whether or not the quorum is reached, leaves allRecipients,
\* completedRecipients and failedRecipients as they were; so does every further
\* run for the same signature.
C23_VerificationLeavesLedger ==
  [][VerificationStep =>
       /\ allRecipients' = allRecipients
       /\ completedRecipients' = completedRecipients
       /\ failedRecipients' = failedRecipients]_vars

C23_Witness ==
  /\ pc = "batch"
  /\ completedRecipients # {}
  /\ failedRecipients # <<>>
  /\ VerificationReturned
  /\ ~outcome.consensusReached
  /\ outcome.totalCount = 3

\* C24: the queries of the enabled endpoints settle in any order, and the
\* results of the verification are in the order of the enabled endpoints
\* whatever that order was: entry k names the k-th enabled endpoint and holds
\* the result of that endpoint's answer.
C24_ResultsInEndpointOrder ==
  VerificationReturned =>
    /\ Len(outcome.results) = Len(EnabledEndpoints)
    /\ \A k \in 1..Len(EnabledEndpoints) :
         /\ outcome.results[k].endpoint = EnabledEndpoints[k].id
         /\ outcome.results[k].success = (replies[k] = Finalized /\ EnabledEndpoints[k].url = "http")

C24_Witness ==
  /\ VerificationReturned
  /\ settleOrder = <<3, 1, 2>>
  /\ replies = <<Finalized, TimedOut, Finalized>>
  /\ outcome.results[2].endpoint = EnabledEndpoints[2].id
  /\ ~outcome.results[2].success

\* an invocation of sendTransactions is running before and after the step
InFlight == pc # "idle" /\ pc' # "idle"

\* C25: while a send is in flight no UI event (a toggle, an edit, a move, a
\* removal, an addition, set-primary, reset, a cluster change, a wallet
\* connect) replaces the connection or changes the list of enabled endpoints.
C25_SendSeesFixedEndpoints ==
  [][InFlight =>
       /\ connection' = connection
       /\ getEnabledEndpoints(registry') = getEnabledEndpoints(registry)]_vars

\* C26: the send button is disabled from the start of the click handler until
\* sendTransactions has returned or thrown, so that no second invocation and
\* no resetProgress can start while one is in flight.
C26_ButtonDisabledInFlight == pc # "idle" => sendBtnDisabled

\* C27: minConsensusThreshold is an integer from 1 to 10 after initRpcConfig,
\* whatever localStorage holds, and after every updateConsensusThreshold call.
C27_ThresholdInRange == minConsensusThreshold \in 1..ThresholdLimit

\* the amount string given to decimalToAmount and the decimals
AmountString == fnInput[1]
AmountDecimals == fnInput[2]
Converted == Len(fnOutput) = 3

\* the number of digits after the point
FractionDigits(s) == IF DotIndex(s) > Len(s) THEN 0 ELSE Len(s) - DotIndex(s)

\* no zero before the first digit of the whole part, none at the end of the
\* fraction
IsCanonicalAmount(s) ==
  /\ s[1] = "0" => (Len(s) = 1 \/ s[2] = ".")
  /\ DotIndex(s) <= Len(s) => Last(s) # "0"

\* C28 as stated: formatAmount(decimalToAmount(s, d), d) = s for every valid
\* decimal string s with at most d fractional digits and every d >= 0.
C28_RoundTrip ==
  (Converted /\ FractionDigits(AmountString) <= AmountDecimals) =>
    fnOutput[3] = AmountString

\* C28 amended: formatAmount(decimalToAmount(s, d), d) = s for every valid
\* decimal string s with at most d fractional digits that has no superfluous
\* zero (none leading the whole part, none ending the fraction).
C28_RoundTripCanonical ==
  (/\ Converted
   /\ FractionDigits(AmountString) <= AmountDecimals
   /\ IsCanonicalAmount(AmountString)) =>
    fnOutput[3] = AmountString

C28_Witness ==
  /\ AmountString = <<"0", ".", "0", "5">>
  /\ AmountDecimals = 3
  /\ fnOutput = <<"amount", 50, <<"0", ".", "0", "5">> >>

\* the URL that buildEndpointUrl returned
UrlBuilt == Len(fnOutput) = 2 /\ fnOutput[1] = "url"
BuiltUrl == fnOutput[2]
HasQueryPart(url) == \E i \in 1..Len(url) : url[i] = "?"

\* C29: without an api key (absent or empty) buildEndpointUrl returns the url
\* as it is; with one it returns the url followed by "api-key=<key>",
\* introduced by "?" when the url has no query part and by "&" when it has.
C29_ApiKeyAppended ==
  UrlBuilt =>
    LET url == fnInput.url
        key == fnInput.apiKey
    IN /\ key \in {NoKey, <<>>} => BuiltUrl = url
       /\ key \notin {NoKey, <<>>} =>
            /\ Len(BuiltUrl) = Len(url) + 1 + Len(ApiKeyParam) + Len(key)
            /\ SubSeq(BuiltUrl, 1, Len(url)) = url
            /\ BuiltUrl[Len(url) + 1] = (IF HasQueryPart(url) THEN "&" ELSE "?")
            /\ SubSeq(BuiltUrl, Len(url) + 2, Len(url) + 1 + Len(ApiKeyParam)) = ApiKeyParam
            /\ SubSeq(BuiltUrl, Len(url) + 2 + Len(ApiKeyParam), Len(BuiltUrl)) = key

C29_Witness ==
  /\ fnInput = [url |-> <<"h", "?", "=">>, apiKey |-> <<"k", "2">>]
  /\ fnOutput = <<"url", <<"h", "?", "=", "&", "a", "p", "i", "-", "k", "e", "y", "=", "k", "2">> >>

\* the list lost an entry in this step (reset apart, only removeEndpoint
\* shortens it)
EntryRemoved == Len(registry') < Len(registry)

\* C30: no operation on the list other than reset deletes a default endpoint:
\* every entry with isDefault = true is still in the list, as a default, after
\* the step; a removal deletes exactly one entry, a custom one, and leaves the
\* others in their order, and the primary id is cleared when it was that
\* entry's id and kept otherwise.
C30_DefaultsNeverRemoved ==
  [][/\ \A i \in 1..Len(registry) :
          registry[i].isDefault =>
            \E j \in 1..Len(registry') :
              registry'[j].id = registry[i].id /\ registry'[j].isDefault
     /\ EntryRemoved =>
          \E idx \in 1..Len(registry) :
            /\ ~registry[idx].isDefault
            /\ registry' = SubSeq(registry, 1, idx - 1)
                              \o SubSeq(registry, idx + 1, Len(registry))
            /\ primaryId' = (IF primaryId = registry[idx].id THEN 0 ELSE primaryId)]_vars

\* a custom endpoint has been removed and no primary is set; the defaults
\* are all there, one of them edited and disabled
C30_Witness ==
  /\ Len(fnOutput) = 1
  /\ ~fnOutput[1].isDefault
  /\ primaryId = 0
  /\ connection # fnOutput[1].id
  /\ Len(registry) = 2
  /\ \A i \in 1..2 : registry[i].isDefault
  /\ registry[1].id = 2
  /\ registry[2].apiKey = "key"
  /\ ~registry[2].enabled

\* ---------------------------------------------------- the page's start-up
\* what the page started from (SpecLoad keeps it in fnInput)
ConfigUnusable == fnInput.fetched.kind \in {"not_ok", "throws", "no_rpc"}
NothingStored == fnInput.stored.kind = "absent"
IsBuiltIn(ep) == \E i \in 1..Len(DefaultRegistry) : ep.id = DefaultRegistry[i].id /\ ep.isDefault

\* C31: when config.json is missing, not accessible, not parseable or lacks
\* the rpc property, the list loaded for the cluster is empty, and with nothing
\* stored in localStorage the cluster's endpoint list is empty: no built-in
\* endpoint is in use.
C31_FallbackIsEmpty ==
  ConfigUnusable =>
    /\ loadedConfig = <<>>
    /\ NothingStored => registry = <<>>
    /\ \A i \in 1..Len(registry) : ~IsBuiltIn(registry[i])

\* the step just taken was a confirmed reset
JustReset == fnOutput = <<"reset">>
\* the cluster's list as loadConfig returned it when the page started
ListAsLoaded == loadConfig(fnInput.fetched)

\* C32: a confirmed reset leaves the cluster's list equal to the endpoints as
\* they were loaded from config.json (original url, apiKey and enabled values)
\* and the primary id null, whatever toggles or merges of stored customisations
\* came before it.
C32_ResetRestoresLoadedConfig ==
  JustReset => registry = ListAsLoaded /\ primaryId = 0

\* ------------------------------------------- the transactions built
\* the attempt just made came to a transaction
BuildStep == AttemptStep /\ built' # NoTx

TransfersOf(ins) == SelectSeq(ins, LAMBDA i : i.kind = "transfer")

\* tx carries the blockhash its own getLatestBlockhash call returned and, for
\* the lines of batchLines in order, a transfer each, preceded immediately by
\* the creation of the destination account exactly when existing lacks it
BuiltAnew(tx, batchLines, recipients, existing) ==
  LET ins == tx.instructions
  IN /\ tx.blockhash = tx.fetched
     /\ [k \in 1..Len(TransfersOf(ins)) |-> TransfersOf(ins)[k].line] = batchLines
     /\ \A p \in 1..Len(ins) :
          /\ ins[p].address = recipients[ins[p].line].address
          /\ ins[p].kind = "create" =>
               /\ ins[p].address \notin existing
               /\ p < Len(ins)
               /\ ins[p + 1].kind = "transfer"
               /\ ins[p + 1].line = ins[p].line
          /\ ins[p].kind = "transfer" /\ ins[p].address \notin existing =>
               /\ p > 1
               /\ ins[p - 1].kind = "create"
               /\ ins[p - 1].line = ins[p].line

\* C33 as stated: every attempt builds its transaction anew, with a blockhash
\* that no other attempt used, and with the account-creation instruction
\* immediately before a recipient's transfer exactly when the account is
\* absent at the time of the attempt, in recipient order.
C33_BuiltAnewUnusedBlockhash ==
  [][BuildStep =>
       /\ BuiltAnew(built', last'.batch, allRecipients, accounts)
       /\ built'.blockhash \notin usedHashes]_vars

\* C33 amended: every attempt builds its transaction anew, with the blockhash
\* its own getLatestBlockhash call returned (which the chain may also have
\* returned to another attempt), and with the account-creation instruction
\* immediately before a recipient's transfer exactly when the account is
\* absent at the time of the attempt, in recipient order.
C33_BuiltAnew ==
  [][BuildStep => BuiltAnew(built', last'.batch, allRecipients, accounts)]_vars

\* a retry on a sub-batch whose transaction creates one recipient's account
\* and pays another recipient into an existing one
C33_Witness ==
  /\ last.sim
  /\ last.depth > 0
  /\ Len(last.batch) = 2
  /\ built # NoTx
  /\ Len(built.instructions) = 3
  /\ built.blockhash \in usedHashes

\* ------------------------------------------- what the chain has accepted
\* C34: within one invocation no recipient line is in more than one
\* transaction that landed on chain, whatever the chain client answers: a
\* batch whose transaction landed is not submitted again, whole or in part.
C34_NoLineLandsTwice ==
  \A i, j \in 1..Len(landed) :
    i < j => LineSet(landed[i]) \cap LineSet(landed[j]) = {}

C36_SimulationGatesSigning ==
  /\ lastRes.simulated => last.sim
  /\ lastRes.simError => ~lastRes.signAsked /\ ~lastRes.sent /\ ~lastRes.ok
  /\ last.sim /\ (lastRes.signAsked \/ lastRes.sent) =>
       lastRes.simulated /\ ~lastRes.simError
  /\ lastRes.sent => lastRes.signAsked

\* a retry on a sub-batch stopped by its simulation, after an earlier
\* transaction of the invocation landed
C36_Witness ==
  /\ last.sim
  /\ last.depth > 0
  /\ lastRes.simulated
  /\ lastRes.simError
  /\ ~lastRes.signAsked
  /\ Len(landed) > 0

\* --------------------------------------------------- the endpoint list
\* C37: no two endpoints of the cluster's list share an id, in every state
\* reachable from a list with unique ids by add, edit, toggle, move, remove
\* (and merge and reset) operations.
C37_EndpointIdsUnique ==
  \A i, j \in 1..Len(registry) : registry[i].id = registry[j].id => i = j

\* C38: the cluster's primary id is null or the id of an endpoint present in
\* the cluster's list, in every state reachable from initRpcConfig (the primary
\* selection loaded from localStorage included) by set-primary, remove, reset
\* and toggle operations.
C38_PrimaryNeverDangling ==
  primaryId = 0 \/ \E i \in 1..Len(registry) : registry[i].id = primaryId

\* the positions of the list that have property P, and the first of a set
PrimaryPositions == {i \in 1..Len(registry) : registry[i].id = primaryId}
EnabledPositions == {i \in 1..Len(registry) : registry[i].enabled}
FirstOf(S) == CHOOSE i \in S : \A j \in S : i <= j

\* C39: the connection is backed by the endpoint whose id is the cluster's
\* primary id when such an endpoint is in the list, enabled or not; otherwise
\* by the first enabled endpoint in list order; otherwise by the first
\* endpoint; and by the dropdown URL only when the list is empty.
C39_ConnectionFollowsSelection ==
  IF primaryId # 0 /\ PrimaryPositions # {}
    THEN connection = primaryId
  ELSE IF EnabledPositions # {}
    THEN connection = registry[FirstOf(EnabledPositions)].id
  ELSE IF Len(registry) > 0
    THEN connection = registry[1].id
  ELSE connection = DropdownConnection

\* the primary endpoint is disabled and comes after an enabled one, and the
\* connection is backed by it
C39_Witness ==
  /\ Len(registry) >= 2
  /\ registry[1].enabled
  /\ primaryId # 0
  /\ PrimaryPositions # {}
  /\ FirstOf(PrimaryPositions) > 1
  /\ ~registry[FirstOf(PrimaryPositions)].enabled
  /\ connection = primaryId

\* ------------------------------------------------------ amounts of lines
\* floor(value(s) * 10^d) for a decimal string s: the number its digits spell,
\* scaled by 10^d and divided by 10^(number of fractional digits)
WrittenDigits(s) == SelectSeq(s, LAMBDA c : c # ".")
FloorScaled(s, d) == (DigitsToNat(WrittenDigits(s)) * 10 ^ d) \div (10 ^ FractionDigits(s))

\* sendTransactions has parsed the one-line list
LineParsed == Len(fnOutput) = 4 /\ fnOutput[1] = "line"

\* C40: decimalToAmount(s, d) is the non-negative integer
\* floor(value(s) * 10^d), fractional digits beyond the d-th being dropped
\* without an error; sendTransactions rejects a line with a valid amount
\* string exactly when that integer is <= 0, and every recipient placed in a
\* batch has amount > 0.
C40_AmountIsFloorAndPositive ==
  /\ Converted =>
       /\ fnOutput[2] = FloorScaled(AmountString, AmountDecimals)
       /\ fnOutput[2] >= 0
  /\ LineParsed /\ IsDecimalString(AmountString) =>
       /\ fnOutput[2] \in {"none", "amount_not_positive"}
       /\ fnOutput[2] = "amount_not_positive"
            <=> FloorScaled(AmountString, AmountDecimals) <= 0
  /\ LineParsed =>
       \A b \in 1..Len(fnOutput[4]) : \A k \in 1..Len(fnOutput[4][b]) :
         /\ fnOutput[4][b][k].amount > 0
         /\ fnOutput[4][b][k].amount = FloorScaled(AmountString, AmountDecimals)

\* "0.05" with one decimal: a positive amount whose integer is 0, and the
\* line is rejected
C40_Witness ==
  /\ LineParsed
  /\ AmountString = <<"0", ".", "0", "5">>
  /\ AmountDecimals = 1
  /\ fnOutput[2] = "amount_not_positive"
  /\ fnOutput[4] = <<>>

====
